---------------------------- MODULE Spec2Model ----------------------------
(***************************************************************************)
(* A model of cinephrase's streaming phrase search and clip rendering      *)
(* (src/server.py): the process-wide GPU capability state and permit pool, *)
(* the cancel/skip registry, the clip cache directory, the SSE generator   *)
(* of /search_longest_segments_stream, the per-segment thread pool and the *)
(* render_single_clip task.                                                *)
(***************************************************************************)
EXTENDS Integers, Sequences, FiniteSets, TLC

(* ------------------------------ bounds -------------------------------- *)
\* The largest pool size get_max_workers() reports (the machine's cores).
MaxWorkers == 3
\* The clips (matches after the cap) of all searches of one stream together.
MaxClips == 3
\* The segments (distinct phrase texts) one search can find.
MaxSegments == 2
\* The sentence groups (comma separated searches) of one stream.
MaxGroups == 2

(* ------------------------- program constants -------------------------- *)
MAX_GPU_STREAMS == 2
DEFAULT_MAX_RESULTS == 25

NoEncoder == "none"
\* One NVENC encoder and one that is not: the failure handling tells them apart.
Encoders == {"h264_nvenc", "h264_qsv"}

\* What one encode invocation (subprocess.run) can come back with:
\*   ok       exit code 0
\*   fail     non-zero exit, no GPU signature in code or stderr
\*   rc187    exit code 187
\*   rc244    exit code 244
\*   gpuerr   another non-zero exit whose stderr holds a listed substring
\*   timeout  subprocess.TimeoutExpired
Outcomes == {"ok", "fail", "rc187", "rc244", "gpuerr", "timeout"}

Sentences == 1 .. MaxGroups
Unbound == "unbound"
None == "None"

VARIABLES
    GPU_ENCODER_CACHE,      \* _GPU_ENCODER_CACHE after startup
    GPU_DISABLED,           \* _GPU_DISABLED
    GPU_ENCODING_SEMAPHORE, \* permits available
    max_workers,            \* get_max_workers() on this machine
    CANCELLED_SEARCHES,     \* set of search ids
    SKIP_SEGMENTS,          \* search id -> set of phrases (a dict: DOMAIN = keys)
    clipDirs,               \* clip group -> [exists, files, meta]
    found,                  \* sentence -> clips per segment, longest segment first
    req,                    \* stream -> [counter, groups]: the requests
    sess,                   \* stream -> locals of generate() and of the generator
    tasks,                  \* stream -> the futures of the segment's batch
    doneQ,                  \* stream -> futures in the order as_completed sees them
    out,                    \* stream -> events sent so far
    srch                    \* the phrase search under study: its inputs and results

vars == <<GPU_ENCODER_CACHE, GPU_DISABLED, GPU_ENCODING_SEMAPHORE,
          max_workers, CANCELLED_SEARCHES, SKIP_SEGMENTS, clipDirs, found, req, sess,
          tasks, doneQ, out, srch>>

gpuVars == <<GPU_ENCODER_CACHE, GPU_DISABLED, GPU_ENCODING_SEMAPHORE,
             max_workers>>

(* ------------------------------ helpers ------------------------------- *)
Streams == DOMAIN req

Min(a, b) == IF a <= b THEN a ELSE b

Take(s, n) == IF n >= Len(s) THEN s ELSE SubSeq(s, 1, n)

RECURSIVE SumSeq(_)
SumSeq(s) == IF s = <<>> THEN 0 ELSE Head(s) + SumSeq(Tail(s))

RECURSIVE SortedSeq(_)
SortedSeq(S) ==
    IF S = {} THEN <<>>
    ELSE LET m == CHOOSE x \in S : \A y \in S : x <= y
         IN  <<m>> \o SortedSeq(S \ {m})

SeqSet(s) == {s[i] : i \in 1 .. Len(s)}

\* generate_clip_group_name('sentence', sentence, files): the files of a
\* request are fixed here, so the sentence names the group.
generate_clip_group_name(sentence) == sentence

\* search_id = f"{counter}_{clip_group}"
SearchId(s, g) == <<req[s].counter, generate_clip_group_name(req[s].groups[g])>>

CurId(s) == SearchId(s, sess[s].grp)
CurGroup(s) == generate_clip_group_name(req[s].groups[sess[s].grp])

\* sorted_segments of the running search: the clips of each segment after
\* segment_groups[segment][:max_results_per_segment].
SegmentClips(s) ==
    LET f == found[req[s].groups[sess[s].grp]]
    IN  [k \in 1 .. Len(f) |-> Min(f[k], DEFAULT_MAX_RESULTS)]

\* The phrase of segment k of a sentence.
Phrase(sentence, k) == <<sentence, k>>
CurPhrase(s) == Phrase(req[s].groups[sess[s].grp], sess[s].seg)


\* A skip set that is not kept apart by search id.
SkipSet_any_id(id) == UNION {SKIP_SEGMENTS[k] : k \in DOMAIN SKIP_SEGMENTS}

\* SKIP_SEGMENTS.get(search_id, set())
SkipSet(id) == IF id \in DOMAIN SKIP_SEGMENTS THEN SKIP_SEGMENTS[id] ELSE {}

(* ----------------------- EncoderCapability ---------------------------- *)
\* get_gpu_encoder(): the cached result.
get_gpu_encoder == GPU_ENCODER_CACHE

\* detect_gpu_encoder() after startup: nothing while disabled, else the cache.
detect_gpu_encoder == IF GPU_DISABLED THEN NoEncoder ELSE GPU_ENCODER_CACHE

\* A disable that sets the flag and leaves the cached encoder in place.
disable_gpu_encoder_flag_only == [disabled |-> TRUE, cache |-> GPU_ENCODER_CACHE]

\* disable_gpu_encoder(): the values of (_GPU_DISABLED, _GPU_ENCODER_CACHE) after it.
disable_gpu_encoder == [disabled |-> TRUE, cache |-> NoEncoder]


(* --------------------------- ClipTask --------------------------------- *)
\* A future of the batch and the render_single_clip call behind it.
\*   st        queued | revoked (cancelled, still in the work queue) | cancelled
\*             | started | holding (permit held) | enc | encMin | encCpu
\*             | ok | failed
\*   name      the number in the clip's file name
\*   cur_enc   current_gpu_encoder as read by the task
\*   use_gpu   the permit was acquired
\*   cmd       the video encoder of the encode process that runs, or that ran
\*             last: NoCmd | a name of Encoders | "libx264"
\*   rc        what the encode process that ran last came back with
\*   afterDisable  GPU support was already disabled when the task began
\* The locals are gone when the call returns: a future that is done holds
\* its result only.
NoCmd == "nocmd"
NoRc == "norc"
CpuEncoder == "libx264"

NewTask(n) ==
    [st |-> "queued", name |-> n, cur_enc |-> NoEncoder, use_gpu |-> FALSE,
     cmd |-> NoCmd, rc |-> NoRc, afterDisable |-> FALSE]

Returned(t, result) == [NewTask(t.name) EXCEPT !.st = result]

RunningStates == {"started", "holding", "enc", "encMin", "encCpu"}
EncodingStates == {"enc", "encMin", "encCpu"}

Running(s) == {i \in 1 .. Len(tasks[s]) : tasks[s][i].st \in RunningStates}
Queue(s) == {i \in 1 .. Len(tasks[s]) : tasks[s][i].st \in {"queued", "revoked"}}

\* An acquire that never fails.
TryAcquire_always(permits) == TRUE

\* GPU_ENCODING_SEMAPHORE.acquire(blocking=False)
TryAcquire(permits) == permits > 0

\* The video encoder of the first command (lines 2481-2485): '-c:v'
\* current_gpu_encoder with use_gpu, else libx264.
FirstEncoder(use_gpu, cur_enc) == IF use_gpu THEN cur_enc ELSE CpuEncoder

\* The video encoder of the minimal-parameter command (line 2544).
MinimalEncoder == "h264_nvenc"

\* A test that takes every non-zero exit for a failure of the GPU.
IsGpuFailure_any_exit(cur_enc, o) == cur_enc # NoEncoder

\* The test of line 2528 on a non-zero exit.
IsGpuFailure(cur_enc, o) ==
    cur_enc # NoEncoder /\ o \in {"rc187", "rc244", "gpuerr"}

\* A retry test that looks at the exit code alone.
WantsMinimalRetry_any_encoder(cur_enc, o) == o = "rc244"

\* The test of line 2535: the minimal-parameter retry.
WantsMinimalRetry(cur_enc, o) == o = "rc244" /\ cur_enc = "h264_nvenc"

\* A future that is done without as_completed ever yielding it.
Resolve_unannounced(s, i, result) ==
    /\ tasks' = [tasks EXCEPT ![s][i] = Returned(@, result)]
    /\ UNCHANGED doneQ

\* The future is done: as_completed will yield it.
Resolve(s, i, result) ==
    /\ tasks' = [tasks EXCEPT ![s][i] = Returned(@, result)]
    /\ doneQ' = [doneQ EXCEPT ![s] = Append(@, i)]

\* The encode wrote output_path.
WriteClip(s, i) ==
    clipDirs' = [clipDirs EXCEPT ![CurGroup(s)].files = @ \cup {tasks[s][i].name}]

\* A pool that starts a work item whenever one is queued.
PoolHasRoom_always(s) == TRUE

\* ThreadPoolExecutor(max_workers): a thread of the pool is idle.
PoolHasRoom(s) == Cardinality(Running(s)) < max_workers

\* A worker thread takes the next work item: a cancelled future is only
\* notified, any other begins render_single_clip.
TaskStart(s, i) ==
    /\ sess[s].pc \in {"harvest", "cancelling", "disconnected"}
    /\ i \in Queue(s)
    /\ \A j \in Queue(s) : i <= j
    /\ PoolHasRoom(s)
    /\ IF tasks[s][i].st = "revoked"
       THEN Resolve(s, i, "cancelled")
       ELSE /\ tasks' = [tasks EXCEPT ![s][i] =
                   [@ EXCEPT !.st = "started", !.afterDisable = GPU_DISABLED]]
            /\ UNCHANGED doneQ
    /\ UNCHANGED <<gpuVars, CANCELLED_SEARCHES, SKIP_SEGMENTS, clipDirs, found,
                   req, sess, out>>

\* Lines 2413-2462 and, without a permit, 2463-2500: the source file is
\* checked, the encoder read and the permit tried; without the permit the
\* libx264 command is built and run at once.
TaskPrepare(s, i) ==
    /\ tasks[s][i].st = "started"
    /\ \E present \in BOOLEAN :
         IF ~present
         THEN /\ Resolve(s, i, "failed")
              /\ UNCHANGED GPU_ENCODING_SEMAPHORE
         ELSE LET cur == get_gpu_encoder
                  got == cur # NoEncoder /\ TryAcquire(GPU_ENCODING_SEMAPHORE)
              IN  IF got
                  THEN /\ GPU_ENCODING_SEMAPHORE' = GPU_ENCODING_SEMAPHORE - 1
                       /\ tasks' = [tasks EXCEPT ![s][i] =
                              [@ EXCEPT !.st = "holding", !.cur_enc = cur,
                                        !.use_gpu = TRUE]]
                       /\ UNCHANGED doneQ
                  ELSE /\ tasks' = [tasks EXCEPT ![s][i] =
                              [@ EXCEPT !.st = "enc", !.cur_enc = cur,
                                        !.cmd = FirstEncoder(FALSE, cur)]]
                       /\ UNCHANGED <<GPU_ENCODING_SEMAPHORE, doneQ>>
    /\ UNCHANGED <<GPU_ENCODER_CACHE, GPU_DISABLED, max_workers, CANCELLED_SEARCHES,
                   SKIP_SEGMENTS, clipDirs, found, req, sess, out>>

\* A finally clause that does not give the permit back.
TaskRelease_keeps_permit(s, i) ==
    /\ tasks[s][i].st = "holding"
    /\ tasks' = [tasks EXCEPT ![s][i] =
           [@ EXCEPT !.st = "enc",
                     !.cmd = FirstEncoder(tasks[s][i].use_gpu, tasks[s][i].cur_enc)]]
    /\ UNCHANGED <<gpuVars, CANCELLED_SEARCHES, SKIP_SEGMENTS, clipDirs, found,
                   req, sess, doneQ, out>>

\* Lines 2481-2500 with the permit: the encoder arguments are added, the
\* permit is released in the finally clause, and then ffmpeg is run.
TaskRelease(s, i) ==
    /\ tasks[s][i].st = "holding"
    /\ GPU_ENCODING_SEMAPHORE' = GPU_ENCODING_SEMAPHORE + 1
    /\ tasks' = [tasks EXCEPT ![s][i] =
           [@ EXCEPT !.st = "enc",
                     !.cmd = FirstEncoder(tasks[s][i].use_gpu, tasks[s][i].cur_enc)]]
    /\ UNCHANGED <<GPU_ENCODER_CACHE, GPU_DISABLED, max_workers, CANCELLED_SEARCHES,
                   SKIP_SEGMENTS, clipDirs, found, req, sess, doneQ, out>>

\* A retry that runs the first command once more.
DisableAndRetry_same_command(s, i, o) ==
    /\ GPU_DISABLED' = disable_gpu_encoder.disabled
    /\ GPU_ENCODER_CACHE' = disable_gpu_encoder.cache
    /\ tasks' = [tasks EXCEPT ![s][i] = [@ EXCEPT !.st = "enc", !.rc = o]]
    /\ UNCHANGED <<GPU_ENCODING_SEMAPHORE, max_workers, doneQ, clipDirs>>

\* Lines 2568-2591: GPU support is disabled and the libx264 command is run.
DisableAndRetry(s, i, o) ==
    /\ GPU_DISABLED' = disable_gpu_encoder.disabled
    /\ GPU_ENCODER_CACHE' = disable_gpu_encoder.cache
    /\ tasks' = [tasks EXCEPT ![s][i] =
           [@ EXCEPT !.st = "encCpu", !.cmd = CpuEncoder, !.rc = o]]
    /\ UNCHANGED <<GPU_ENCODING_SEMAPHORE, max_workers, doneQ, clipDirs>>

\* Lines 2502-2552 and 2592-2600: the first encode is back.
EncodeExit(s, i, o) ==
    LET t == tasks[s][i] IN
    /\ t.st = "enc"
    /\ IF o = "ok"
       THEN /\ Resolve(s, i, "ok")
            /\ WriteClip(s, i)
            /\ UNCHANGED gpuVars
       ELSE IF o # "timeout" /\ IsGpuFailure(t.cur_enc, o)
       THEN IF WantsMinimalRetry(t.cur_enc, o)
            THEN /\ tasks' = [tasks EXCEPT ![s][i] =
                        [@ EXCEPT !.st = "encMin", !.cmd = MinimalEncoder,
                                  !.rc = o]]
                 /\ UNCHANGED <<gpuVars, doneQ, clipDirs>>
            ELSE DisableAndRetry(s, i, o)
       ELSE /\ Resolve(s, i, "failed")
            /\ UNCHANGED <<gpuVars, clipDirs>>
    /\ UNCHANGED <<CANCELLED_SEARCHES, SKIP_SEGMENTS, found, req, sess, out>>

\* Lines 2553-2566: the minimal-parameter NVENC encode is back.
MinimalExit(s, i, o) ==
    /\ tasks[s][i].st = "encMin"
    /\ IF o = "ok"
       THEN /\ Resolve(s, i, "ok")
            /\ WriteClip(s, i)
            /\ UNCHANGED gpuVars
       ELSE IF o = "timeout"
       THEN /\ Resolve(s, i, "failed")
            /\ UNCHANGED <<gpuVars, clipDirs>>
       ELSE DisableAndRetry(s, i, o)
    /\ UNCHANGED <<CANCELLED_SEARCHES, SKIP_SEGMENTS, found, req, sess, out>>

\* Lines 2583-2600: the CPU retry is back.
CpuExit(s, i, o) ==
    /\ tasks[s][i].st = "encCpu"
    /\ IF o = "ok"
       THEN /\ Resolve(s, i, "ok")
            /\ WriteClip(s, i)
       ELSE /\ Resolve(s, i, "failed")
            /\ UNCHANGED clipDirs
    /\ UNCHANGED <<gpuVars, CANCELLED_SEARCHES, SKIP_SEGMENTS, found, req,
                   sess, out>>

(* ------------------------- result stream ------------------------------ *)
SegmentEvent(g, phrase, files, skipped) ==
    [type |-> "segment", grp |-> g, phrase |-> phrase, files |-> files,
     skipped |-> skipped, total_segments |-> 0, total_skipped |-> 0]

ErrorEvent(g) ==
    [type |-> "error", grp |-> g, phrase |-> <<>>, files |-> <<>>,
     skipped |-> FALSE, total_segments |-> 0, total_skipped |-> 0]

DoneEvent(n, k) ==
    [type |-> "done", grp |-> 0, phrase |-> <<>>, files |-> <<>>,
     skipped |-> FALSE, total_segments |-> n, total_skipped |-> k]

(* --------------------------- ClipCache -------------------------------- *)
NoMeta == "nometa"
EmptyDir == [exists |-> TRUE, files |-> {}, meta |-> NoMeta]
NoDir == [exists |-> FALSE, files |-> {}, meta |-> NoMeta]

\* current_metadata['source_files']: the request's sorted file list.
SourceFiles(s) == "files"

\* Lines 2125-2183: what the search finds in its clip directory.  The result
\* is [dir, skip_export, cached_clip_files].
CacheSetup(d, source_files, max_results) ==
    IF d.meta # NoMeta /\ d.meta = source_files
    THEN IF d.exists
         THEN LET cached == SortedSeq(d.files)
              IN  IF Min(Len(cached), max_results) = 0
                  THEN [dir |-> EmptyDir, skip_export |-> FALSE, cached |-> <<>>]
                  ELSE [dir |-> d, skip_export |-> TRUE,
                        cached |-> Take(cached, max_results)]
         ELSE [dir |-> d, skip_export |-> FALSE, cached |-> <<>>]
    ELSE [dir |-> EmptyDir, skip_export |-> FALSE, cached |-> <<>>]

\* Lines 3006-3015: the end of a search that ran through all its segments.
CacheFinish(d, counter, skip_export, source_files) ==
    IF counter = 0 /\ ~skip_export THEN NoDir
    ELSE IF ~skip_export THEN [d EXCEPT !.exists = TRUE, !.meta = source_files]
    ELSE d

(* ---------------------- CancellationRegistry -------------------------- *)
\* SKIP_SEGMENTS[search_id] = set()
SkipReset(reg, id) ==
    [k \in DOMAIN reg \cup {id} |-> IF k = id THEN {} ELSE reg[k]]

\* SKIP_SEGMENTS.pop(search_id, None)
SkipPop(reg, id) == [k \in DOMAIN reg \ {id} |-> reg[k]]

\* skip_segment(): the endpoint.
SkipSegment(id, phrase) ==
    /\ SKIP_SEGMENTS' =
           [k \in DOMAIN SKIP_SEGMENTS \cup {id} |->
               IF k = id THEN SkipSet(id) \cup {phrase} ELSE SKIP_SEGMENTS[k]]
    /\ UNCHANGED <<gpuVars, CANCELLED_SEARCHES, clipDirs, found, req, sess,
                   tasks, doneQ, out>>

\* cancel_search(): the endpoint.
CancelSearch(id) ==
    /\ CANCELLED_SEARCHES' = CANCELLED_SEARCHES \cup {id}
    /\ UNCHANGED <<gpuVars, SKIP_SEGMENTS, clipDirs, found, req, sess, tasks,
                   doneQ, out>>

(* ------------------------ the search generator ------------------------ *)
\* The locals of generate() and of find_and_export_longest_matches_incremental.
\*   pc        where the stream is: group (between searches) | segment (at
\*             the checkpoint before the batch) | harvest (in the
\*             as_completed loop) | cancelling (in the loop that cancels the
\*             futures) | legacy (at the head of the sequential loop) |
\*             sequential (polling the encode of the sequential loop) |
\*             searchEnd | finished | aborted (left by GeneratorExit)
NewSess ==
    [pc |-> "group", grp |-> 1, seg |-> 0, segment_skipped |-> FALSE,
     should_cancel |-> FALSE, cancelPtr |-> 0, harvested |-> 0,
     segment_results |-> <<>>, global_clip_counter |-> 0,
     final_path |-> Unbound, relative_path |-> Unbound,
     skip_export |-> FALSE, cached_clip_files |-> <<>>,
     cached_clip_index |-> 0, clip_idx |-> 0,
     total_segment_count |-> 0, total_skipped_count |-> 0]

\* The finally clause of generate(), lines 1173-1178.
Teardown_skip_set_only(id) ==
    /\ SKIP_SEGMENTS' = SkipPop(SKIP_SEGMENTS, id)
    /\ UNCHANGED CANCELLED_SEARCHES

Teardown(id) ==
    /\ SKIP_SEGMENTS' = SkipPop(SKIP_SEGMENTS, id)
    /\ CANCELLED_SEARCHES' = CANCELLED_SEARCHES \ {id}

\* generate() goes on to the next sentence group.
NextGroup(r) == [r EXCEPT !.pc = "group", !.grp = @ + 1]

\* raise GeneratorExit("Search cancelled by user"): it passes through
\* generate(), whose finally clause runs, and ends the stream.
Abort(s) ==
    /\ Teardown(CurId(s))
    /\ sess' = [sess EXCEPT ![s].pc = "aborted"]
    /\ UNCHANGED out

\* An exception other than GeneratorExit leaves the generator: generate()
\* sends an error event, cleans up and goes on (lines 1164-1178).
ErrorOut(s) ==
    /\ Teardown(CurId(s))
    /\ out' = [out EXCEPT ![s] = Append(@, ErrorEvent(sess[s].grp))]
    /\ sess' = [sess EXCEPT ![s] = NextGroup(@)]

\* The generator yields the segment's event, generate() counts and sends it
\* (lines 2987-3004 and 1142-1157); the generator goes on to the next segment
\* and yields its progress event.
YieldSegment(s, r, files, skipped) ==
    LET n == Len(SegmentClips(s))
        r2 == [r EXCEPT !.total_segment_count = IF skipped THEN @ ELSE @ + 1,
                        !.total_skipped_count = IF skipped THEN @ + 1 ELSE @]
    IN  /\ out' = [out EXCEPT ![s] =
               Append(@, SegmentEvent(sess[s].grp, CurPhrase(s), files, skipped))]
        /\ sess' = [sess EXCEPT ![s] =
               IF r.seg < n
               THEN [r2 EXCEPT !.pc = "segment", !.seg = @ + 1]
               ELSE [r2 EXCEPT !.pc = "searchEnd"]]

\* Lines 1099-1104 and 2115-2400: generate() names the search, empties its
\* skip set and starts the generator, which looks at the clip cache and
\* searches the files.  Without a match the generator returns at once.
SearchStart(s) ==
    LET r == sess[s]
        g == CurGroup(s)
        c == CacheSetup(clipDirs[g], SourceFiles(s), DEFAULT_MAX_RESULTS)
    IN  /\ r.pc = "group"
        /\ r.grp <= Len(req[s].groups)
        /\ clipDirs' = [clipDirs EXCEPT ![g] = c.dir]
        /\ IF Len(SegmentClips(s)) = 0
           THEN /\ SKIP_SEGMENTS' = SkipPop(SKIP_SEGMENTS, CurId(s))
                /\ CANCELLED_SEARCHES' = CANCELLED_SEARCHES \ {CurId(s)}
                /\ sess' = [sess EXCEPT ![s] = NextGroup(@)]
           ELSE /\ SKIP_SEGMENTS' = SkipReset(SKIP_SEGMENTS, CurId(s))
                /\ UNCHANGED CANCELLED_SEARCHES
                /\ sess' = [sess EXCEPT ![s] =
                       [@ EXCEPT !.pc = "segment", !.seg = 1,
                                 !.segment_skipped = FALSE,
                                 !.should_cancel = FALSE,
                                 !.segment_results = <<>>,
                                 !.global_clip_counter = 0,
                                 !.final_path = Unbound,
                                 !.relative_path = Unbound,
                                 !.skip_export = c.skip_export,
                                 !.cached_clip_files = c.cached,
                                 !.cached_clip_index = 0]]
        /\ UNCHANGED <<gpuVars, found, req, tasks, doneQ, out>>

\* Lines 2617-2662: the checkpoint before the batch, then the batch is
\* submitted to a new ThreadPoolExecutor.
SegmentBegin(s) ==
    LET r == sess[s]
        n == SegmentClips(s)[r.seg]
    IN  /\ r.pc = "segment"
        /\ IF CurId(s) \in CANCELLED_SEARCHES
           THEN /\ Abort(s)
                /\ UNCHANGED <<tasks, doneQ>>
           ELSE IF CurPhrase(s) \in SkipSet(CurId(s))
           THEN /\ sess' = [sess EXCEPT ![s] =
                       [@ EXCEPT !.pc = "legacy", !.segment_skipped = TRUE,
                                 !.segment_results = <<>>]]
                /\ UNCHANGED <<tasks, doneQ, out, SKIP_SEGMENTS, CANCELLED_SEARCHES>>
           ELSE /\ sess' = [sess EXCEPT ![s] =
                       [@ EXCEPT !.pc = "harvest", !.segment_skipped = FALSE,
                                 !.segment_results = <<>>, !.harvested = 0]]
                /\ tasks' = [tasks EXCEPT ![s] =
                       [i \in 1 .. n |-> NewTask(r.global_clip_counter + i - 1)]]
                /\ doneQ' = [doneQ EXCEPT ![s] = <<>>]
                /\ UNCHANGED <<out, SKIP_SEGMENTS, CANCELLED_SEARCHES>>
        /\ UNCHANGED <<gpuVars, clipDirs, found, req>>

\* A loop body that lists the clip of every future it is given.
ProcessResult_lists_all(r, i, t) ==
    [r EXCEPT !.pc = "harvest", !.harvested = @ + 1, !.cancelPtr = 0,
              !.segment_results = Append(@, t.name)]

\* Lines 2686-2751: the body of the as_completed loop for future i, after the
\* checkpoint.
ProcessResult(r, i, t) ==
    LET r1 == [r EXCEPT !.pc = "harvest", !.harvested = @ + 1, !.cancelPtr = 0] IN
    IF r.segment_skipped /\ r.should_cancel THEN r1
    ELSE IF t.st = "ok"
    THEN [r1 EXCEPT !.final_path = "path", !.relative_path = "path",
                    !.segment_results = Append(@, t.name)]
    ELSE IF t.st = "failed" THEN [r1 EXCEPT !.final_path = None]
    ELSE r1

\* Lines 2664-2680: as_completed yields the next finished future and the
\* checkpoint is taken.
Harvest(s) ==
    LET r == sess[s]
        i == doneQ[s][r.harvested + 1]
        cancelled == CurId(s) \in CANCELLED_SEARCHES
        skipped == ~cancelled /\ CurPhrase(s) \in SkipSet(CurId(s))
        r1 == [r EXCEPT !.should_cancel = cancelled \/ skipped,
                        !.segment_skipped = @ \/ skipped]
    IN  /\ r.pc = "harvest"
        /\ r.harvested < Len(doneQ[s])
        /\ sess' = [sess EXCEPT ![s] =
               IF r1.should_cancel
               THEN [r1 EXCEPT !.pc = "cancelling", !.cancelPtr = 1]
               ELSE ProcessResult(r1, i, tasks[s][i])]
        /\ UNCHANGED <<gpuVars, CANCELLED_SEARCHES, SKIP_SEGMENTS, clipDirs,
                       found, req, tasks, doneQ, out>>

\* Lines 2680-2684: the loop over the futures cancels the next one that has
\* not begun.
CancelFuture(s) ==
    LET r == sess[s]
        pending == {j \in 1 .. Len(tasks[s]) :
                       j >= r.cancelPtr /\ tasks[s][j].st = "queued"}
    IN  /\ r.pc = "cancelling"
        /\ pending # {}
        /\ LET j == CHOOSE j \in pending : \A k \in pending : j <= k
           IN  /\ tasks' = [tasks EXCEPT ![s][j].st = "revoked"]
               /\ sess' = [sess EXCEPT ![s].cancelPtr = j + 1]
        /\ UNCHANGED <<gpuVars, CANCELLED_SEARCHES, SKIP_SEGMENTS, clipDirs,
                       found, req, doneQ, out>>

\* The cancel loop is through: the yielded future is processed.
AfterCancel(s) ==
    LET r == sess[s]
        i == doneQ[s][r.harvested + 1]
    IN  /\ r.pc = "cancelling"
        /\ \A j \in 1 .. Len(tasks[s]) :
               j >= r.cancelPtr => tasks[s][j].st # "queued"
        /\ sess' = [sess EXCEPT ![s] = ProcessResult(r, i, tasks[s][i])]
        /\ UNCHANGED <<gpuVars, CANCELLED_SEARCHES, SKIP_SEGMENTS, clipDirs,
                       found, req, tasks, doneQ, out>>

\* Lines 2753-2759 and 2996-3004: every future was yielded, the executor is
\* left and its futures dropped, the counter moves on; a segment that was
\* not skipped is reported.
BatchExit(s) ==
    LET r == sess[s]
        r1 == [r EXCEPT !.global_clip_counter = @ + Len(tasks[s]),
                        !.harvested = 0]
    IN  /\ r.pc = "harvest"
        /\ r.harvested = Len(tasks[s])
        /\ IF r.segment_skipped
           THEN /\ sess' = [sess EXCEPT ![s] = [r1 EXCEPT !.pc = "legacy"]]
                /\ UNCHANGED out
           ELSE YieldSegment(s, r1, r.segment_results, FALSE)
        /\ tasks' = [tasks EXCEPT ![s] = <<>>]
        /\ doneQ' = [doneQ EXCEPT ![s] = <<>>]
        /\ UNCHANGED <<gpuVars, CANCELLED_SEARCHES, SKIP_SEGMENTS, clipDirs,
                       found, req>>

\* Lines 2965-3004, the code after the sequential loop: it reads final_path,
\* relative_path, filename and clip_start, which are bound only once a clip
\* of this search was processed; then one result is appended, the counter
\* moves on and the segment is reported.
AfterLoop(s, r) ==
    IF r.final_path = Unbound
       \/ (r.final_path = None /\ r.relative_path = Unbound)
    THEN ErrorOut(s)
    ELSE /\ YieldSegment(s,
               [r EXCEPT !.global_clip_counter = @ + 1, !.clip_idx = 0],
               IF r.segment_skipped THEN <<>>
               ELSE Append(r.segment_results, r.global_clip_counter),
               r.segment_skipped)
         /\ UNCHANGED <<SKIP_SEGMENTS, CANCELLED_SEARCHES>>

\* The end of the body of the sequential loop: the next clip, or the code
\* after the loop.
ClipDone(s, r) ==
    IF r.clip_idx + 1 < SegmentClips(s)[r.seg]
    THEN /\ sess' = [sess EXCEPT ![s] =
                [r EXCEPT !.pc = "legacy", !.clip_idx = @ + 1]]
         /\ UNCHANGED <<out, SKIP_SEGMENTS, CANCELLED_SEARCHES>>
    ELSE AfterLoop(s, r)

\* Lines 2759-2857 for a skipped segment: the sequential loop takes its two
\* checkpoints for the clip; on the skip it breaks.  When the skip is gone
\* the clip is taken from the cache, or its encode is started with Popen
\* (the source file is there and ffprobe answers).
LegacyLoop(s) ==
    LET r == sess[s]
        r1 == [r EXCEPT !.final_path = None, !.relative_path = "path"]
        cached == r.skip_export /\ r.cached_clip_index < Len(r.cached_clip_files)
        r2 == IF cached
              THEN [r1 EXCEPT !.cached_clip_index = @ + 1, !.final_path = "path"]
              ELSE r1
        there == cached /\ r.cached_clip_files[r.cached_clip_index + 1]
                               \in clipDirs[CurGroup(s)].files
    IN
    /\ r.pc = "legacy"
    /\ IF CurId(s) \in CANCELLED_SEARCHES
       THEN Abort(s)
       ELSE IF CurPhrase(s) \in SkipSet(CurId(s))
       THEN AfterLoop(s, r)
       ELSE IF there
       THEN ClipDone(s, r2)
       ELSE /\ sess' = [sess EXCEPT ![s] =
                   [r2 EXCEPT !.pc = "sequential", !.skip_export = FALSE]]
            /\ UNCHANGED <<out, SKIP_SEGMENTS, CANCELLED_SEARCHES>>
    /\ UNCHANGED <<gpuVars, clipDirs, found, req, tasks, doneQ>>

\* Lines 2860-2901: the encode is still running and the polling loop sees a
\* signal: it terminates the process and removes the partial file; a
\* cancellation leaves the generator, a skip breaks out of the loop.
SeqPoll(s) ==
    LET r == sess[s] IN
    /\ r.pc = "sequential"
    /\ IF CurId(s) \in CANCELLED_SEARCHES
       THEN Abort(s)
       ELSE /\ CurPhrase(s) \in SkipSet(CurId(s))
            /\ AfterLoop(s, [r EXCEPT !.segment_skipped = TRUE])
    /\ UNCHANGED <<gpuVars, clipDirs, found, req, tasks, doneQ>>

\* What the encode of the sequential loop can come back with: nothing times
\* it.
SeqOutcomes == {"ok", "fail"}

\* Lines 2860 and 2907-2945: poll() sees that the process has exited.  The
\* file is named after the counter, which this loop does not move.
SeqExit(s, o) ==
    LET r == sess[s] IN
    /\ r.pc = "sequential"
    /\ IF o = "ok"
       THEN /\ clipDirs' = [clipDirs EXCEPT ![CurGroup(s)].files =
                               @ \cup {r.global_clip_counter}]
            /\ ClipDone(s, [r EXCEPT !.final_path = "path"])
       ELSE /\ UNCHANGED clipDirs
            /\ ClipDone(s, [r EXCEPT !.final_path = None])
    /\ UNCHANGED <<gpuVars, found, req, tasks, doneQ>>

\* Lines 3006-3015 and 1162-1178: after the last segment the metadata is
\* written or the empty directory removed, the generator returns and
\* generate() cleans up.
SearchEnd(s) ==
    LET r == sess[s]
        g == CurGroup(s)
    IN  /\ r.pc = "searchEnd"
        /\ clipDirs' = [clipDirs EXCEPT ![g] =
               CacheFinish(@, r.global_clip_counter, r.skip_export, SourceFiles(s))]
        /\ Teardown(CurId(s))
        /\ sess' = [sess EXCEPT ![s] = NextGroup(@)]
        /\ UNCHANGED <<gpuVars, found, req, tasks, doneQ, out>>

\* Lines 1180-1182: the completion event.
StreamDone(s) ==
    LET r == sess[s] IN
    /\ r.pc = "group"
    /\ r.grp > Len(req[s].groups)
    /\ out' = [out EXCEPT ![s] =
           Append(@, DoneEvent(r.total_segment_count, r.total_skipped_count))]
    /\ sess' = [sess EXCEPT ![s].pc = "finished"]
    /\ UNCHANGED <<gpuVars, CANCELLED_SEARCHES, SKIP_SEGMENTS, clipDirs, found,
                   req, tasks, doneQ>>

\* The client goes away while generate() is suspended at the yield of a
\* progress event (line 1157): GeneratorExit is raised there and caught at
\* 1158, generate() returns and its finally clause cleans up.  The abandoned
\* generator is closed; inside a batch the exit of the executor still waits
\* for the tasks that were submitted.  The locals of both are gone.
Disconnect(s) ==
    /\ \/ sess[s].pc = "segment"
       \/ sess[s].pc = "harvest" /\ sess[s].harvested >= 1
    /\ Teardown(CurId(s))
    /\ sess' = [sess EXCEPT ![s] =
           [NewSess EXCEPT !.pc = "disconnected", !.grp = sess[s].grp]]
    /\ UNCHANGED <<gpuVars, clipDirs, found, req, tasks, doneQ, out>>

(* --------------------------- specification ---------------------------- *)
\* The searches a stream can ask for: each sentence finds up to MaxSegments
\* segments, and the stream renders at most MaxClips clips in all.
SegLists ==
    UNION {[1 .. n -> 1 .. MaxClips] : n \in 0 .. MaxSegments}

GroupSeqs ==
    UNION {[1 .. n -> Sentences] : n \in 1 .. MaxGroups}

TotalClips(f, groups) ==
    SumSeq([g \in 1 .. Len(groups) |-> SumSeq(f[groups[g]])])

\* Sentences are named in the order the stream first uses them, and a
\* sentence no group uses finds nothing.
Canonical(f, groups) ==
    /\ groups[1] = 1
    /\ \A g \in 2 .. Len(groups) :
           groups[g] <= 1 + Cardinality({groups[h] : h \in 1 .. g - 1})
    /\ \A x \in Sentences : x \notin SeqSet(groups) => f[x] = <<>>

\* The state after startup (initialize_gpu_at_startup): the probe found an
\* encoder or none, every permit is free, no search runs.
InitProcess ==
    /\ GPU_ENCODER_CACHE \in Encoders \cup {NoEncoder}
    /\ GPU_DISABLED = FALSE
    /\ GPU_ENCODING_SEMAPHORE = MAX_GPU_STREAMS
    /\ max_workers \in 1 .. MaxWorkers
    /\ CANCELLED_SEARCHES = {}
    /\ SKIP_SEGMENTS = <<>>
    /\ clipDirs = [g \in Sentences |-> NoDir]

InitStreams(S) ==
    /\ found \in [Sentences -> SegLists]
    /\ req \in [S -> [counter : {0}, groups : GroupSeqs]]
    /\ \A s \in S : /\ Canonical(found, req[s].groups)
                    /\ TotalClips(found, req[s].groups) <= MaxClips
    /\ sess = [s \in S |-> NewSess]
    /\ tasks = [s \in S |-> <<>>]
    /\ doneQ = [s \in S |-> <<>>]
    /\ out = [s \in S |-> <<>>]

\* No phrase search is followed while the rendering of the streams is.
NoSearch == [pc |-> "none"]

Init == InitProcess /\ InitStreams({1}) /\ srch = NoSearch

\* The searches that are running: between SearchStart and their end.
ActivePcs == {"segment", "harvest", "cancelling", "legacy", "sequential"}
RunningIds == {CurId(s) : s \in {x \in Streams : sess[x].pc \in ActivePcs}}

\* The client signals what the progress events of a running search name:
\* its search id, and the phrase of a segment that is not reported yet.
PendingPhrases(id) ==
    UNION {{Phrase(req[s].groups[sess[s].grp], k) :
               k \in sess[s].seg .. Len(SegmentClips(s))} :
           s \in {x \in Streams : sess[x].pc \in ActivePcs /\ CurId(x) = id}}

Next ==
    \/ \E id \in RunningIds : \E ph \in PendingPhrases(id) : SkipSegment(id, ph) /\ UNCHANGED srch
    \/ \E id \in RunningIds : CancelSearch(id) /\ UNCHANGED srch
    \/ \E s \in Streams : SearchStart(s) /\ UNCHANGED srch
    \/ \E s \in Streams : SegmentBegin(s) /\ UNCHANGED srch
    \/ \E s \in Streams : Harvest(s) /\ UNCHANGED srch
    \/ \E s \in Streams : CancelFuture(s) /\ UNCHANGED srch
    \/ \E s \in Streams : AfterCancel(s) /\ UNCHANGED srch
    \/ \E s \in Streams : BatchExit(s) /\ UNCHANGED srch
    \/ \E s \in Streams : LegacyLoop(s) /\ UNCHANGED srch
    \/ \E s \in Streams : SearchEnd(s) /\ UNCHANGED srch
    \/ \E s \in Streams : StreamDone(s) /\ UNCHANGED srch
    \/ \E s \in Streams : Disconnect(s) /\ UNCHANGED srch
    \/ \E s \in Streams : \E i \in 1 .. Len(tasks[s]) : TaskStart(s, i) /\ UNCHANGED srch
    \/ \E s \in Streams : \E i \in 1 .. Len(tasks[s]) : TaskPrepare(s, i) /\ UNCHANGED srch
    \/ \E s \in Streams : \E i \in 1 .. Len(tasks[s]) : TaskRelease(s, i) /\ UNCHANGED srch
    \/ \E s \in Streams : \E i \in 1 .. Len(tasks[s]) :
           \E o \in Outcomes : EncodeExit(s, i, o) /\ UNCHANGED srch
    \/ \E s \in Streams : \E i \in 1 .. Len(tasks[s]) :
           \E o \in Outcomes : MinimalExit(s, i, o) /\ UNCHANGED srch
    \/ \E s \in Streams : \E i \in 1 .. Len(tasks[s]) :
           \E o \in Outcomes : CpuExit(s, i, o) /\ UNCHANGED srch

Spec == Init /\ [][Next]_vars

(* ------------------------------ claims -------------------------------- *)
\* The searches of stream s that are under way, by their position.
InSearch(s) == sess[s].pc \in ActivePcs \cup {"searchEnd"}

\* The per-segment result events of a stream.
SegmentEvents(events) == SelectSeq(events, LAMBDA e : e.type = "segment")

\* A step that starts an encode process for task i of stream s.
StartsEncode(s, i) ==
    /\ i \in DOMAIN tasks'[s]
    /\ tasks'[s][i].st \in EncodingStates
    /\ tasks'[s][i].st # tasks[s][i].st

\* C1: from the moment the search id of a session is in the cancelled set,
\* the session emits no further per-segment result event and starts no
\* further encode process.
C1_CancelStopsSession ==
    [][\A s \in Streams :
          (InSearch(s) /\ CurId(s) \in CANCELLED_SEARCHES)
              => /\ SegmentEvents(out'[s]) = SegmentEvents(out[s])
                 /\ \A i \in DOMAIN tasks[s] : ~StartsEncode(s, i)]_vars

\* The GPU-backed encode processes that are running.
GpuEncodes ==
    {<<s, i>> \in Streams \X (1 .. MaxClips) :
        /\ i \in DOMAIN tasks[s]
        /\ tasks[s][i].st \in EncodingStates
        /\ tasks[s][i].cmd \in Encoders}

\* C2: at every moment the number of GPU-backed encode processes that run
\* concurrently is at most the permit capacity MAX_GPU_STREAMS.
C2_GpuEncodesWithinPermits == Cardinality(GpuEncodes) <= MAX_GPU_STREAMS

\* C3: a segment whose skip was observed at a checkpoint is reported by
\* exactly one event with files = [] and skipped = true, and the session goes
\* on to the next segment (or, after the last one, to the end of the search);
\* only a cancellation takes the session elsewhere.
C3_SkipIsReported ==
    [][\A s \in Streams :
          (sess[s].pc = "legacy" /\ sess'[s].pc # "legacy"
             /\ sess'[s].pc # "aborted")
              => /\ out'[s] = Append(out[s],
                        SegmentEvent(sess[s].grp, CurPhrase(s), <<>>, TRUE))
                 /\ sess'[s].pc \in {"segment", "searchEnd"}
                 /\ sess'[s].grp = sess[s].grp]_vars

\* The search of stream s that is under way repeats the search before it
\* (same files, same phrase, same cap), and that one rendered all its clips
\* and wrote its metadata: the cache was accepted with every clip in it.
RepeatedSearch(s) ==
    /\ InSearch(s)
    /\ sess[s].grp > 1
    /\ req[s].groups[sess[s].grp] = req[s].groups[sess[s].grp - 1]
    /\ sess[s].skip_export
    /\ Len(sess[s].cached_clip_files) = SumSeq(SegmentClips(s))

\* C4: the second run of an identical search whose first run rendered all
\* its clips starts no encode process.
C4_RepeatedSearchEncodesNothing ==
    \A s \in Streams :
        RepeatedSearch(s) =>
            \A i \in DOMAIN tasks[s] : tasks[s][i].st \notin EncodingStates

\* C8: a search is left before all its segments are processed only by a
\* cancellation; failed tasks leave the batch, the segment's event and the
\* later segments alone.
C8_OnlyCancellationEndsEarly ==
    [][\A s \in Streams :
          (sess[s].pc \in ActivePcs /\ sess'[s].pc \notin ActivePcs)
              => sess'[s].pc \in {"searchEnd", "aborted", "disconnected"}]_vars

\* The stream is over: generate() returned or was left by an exception.
StreamOver(s) == sess[s].pc \in {"finished", "aborted"}

CountEvents(events, skipped) ==
    Len(SelectSeq(events, LAMBDA e : e.type = "segment" /\ e.skipped = skipped))

\* C9: a stream that is over has sent exactly one completion event, as its
\* last event, with the counts of the segment events sent before it.
C9_StreamEndsWithCompletion ==
    \A s \in Streams :
        StreamOver(s) =>
            /\ Len(out[s]) > 0
            /\ out[s][Len(out[s])].type = "done"
            /\ Len(SelectSeq(out[s], LAMBDA e : e.type = "done")) = 1
            /\ out[s][Len(out[s])].total_segments = CountEvents(out[s], FALSE)
            /\ out[s][Len(out[s])].total_skipped = CountEvents(out[s], TRUE)

\* Clips are named by their place in match-discovery order.
Ascending(files) ==
    \A a, b \in DOMAIN files : a < b => files[a] < files[b]

\* C10: the files of a segment's result event are in match-discovery order.
C10_FilesInDiscoveryOrder ==
    \A s \in Streams : \A k \in DOMAIN out[s] :
        out[s][k].type = "segment" => Ascending(out[s][k].files)

\* The exits that carry a GPU failure signature: exit code 187 or 244, or a
\* listed substring in the diagnostics.
Signatures == {"rc187", "rc244", "gpuerr"}

\* The step re-runs task i of stream s with libx264 after disabling GPU support.
DisabledAndOnCpu(s, i) ==
    /\ tasks'[s][i].st = "encCpu"
    /\ tasks'[s][i].cmd = CpuEncoder
    /\ GPU_DISABLED'
    /\ GPU_ENCODER_CACHE' = NoEncoder

\* The step starts the minimal-parameter retry of task i of stream s.
RetriesMinimal(s, i) ==
    /\ tasks'[s][i].st = "encMin"
    /\ tasks'[s][i].cmd = MinimalEncoder
    /\ UNCHANGED <<GPU_DISABLED, GPU_ENCODER_CACHE>>

ReportsNoEncoder ==
    /\ get_gpu_encoder = NoEncoder
    /\ detect_gpu_encoder = NoEncoder
    /\ \A s \in Streams : \A i \in DOMAIN tasks[s] :
           tasks[s][i].afterDisable => tasks[s][i].cmd \in {NoCmd, CpuEncoder}

\* C6: once disable_gpu_encoder() has run, GPU support stays disabled,
\* get_gpu_encoder() and detect_gpu_encoder() report no encoder, and a task
\* that begins after the disable runs libx264 encodes only.
C6_DisableIsOneWay ==
    [][/\ GPU_DISABLED => GPU_DISABLED'
       /\ GPU_DISABLED' => ReportsNoEncoder']_vars

\* C6 witness: GPU support is disabled and a task that began after the
\* disable is encoding.
C6_WitnessTaskAfterDisable ==
    /\ GPU_DISABLED
    /\ \E s \in Streams : \E i \in DOMAIN tasks[s] :
           /\ tasks[s][i].afterDisable
           /\ tasks[s][i].st = "enc"

\* C7: a task that finds an encoder cached and every permit held goes on at
\* once, in the step that tries the permit: its command is the libx264 one,
\* it holds no permit, and its encode is running.
C7_NoPermitNoWait ==
    [][\A s \in Streams : \A i \in DOMAIN tasks[s] :
          (/\ tasks[s][i].st = "started"
           /\ get_gpu_encoder # NoEncoder
           /\ GPU_ENCODING_SEMAPHORE = 0
           /\ TaskPrepare(s, i)
           /\ tasks'[s][i].st # "failed")
              => /\ tasks'[s][i].st = "enc"
                 /\ tasks'[s][i].cmd = CpuEncoder
                 /\ ~tasks'[s][i].use_gpu
                 /\ UNCHANGED GPU_ENCODING_SEMAPHORE]_vars

\* C7 witness: every permit is held by a task that is building its command,
\* and a further task, denied the permit, is encoding with libx264.
C7_WitnessDenied ==
    /\ GPU_ENCODING_SEMAPHORE = 0
    /\ \E s \in Streams :
           /\ Cardinality({i \in DOMAIN tasks[s] : tasks[s][i].st = "holding"})
                  = MAX_GPU_STREAMS
           /\ \E i \in DOMAIN tasks[s] :
                  /\ tasks[s][i].st = "enc"
                  /\ tasks[s][i].cur_enc \in Encoders
                  /\ ~tasks[s][i].use_gpu
                  /\ tasks[s][i].cmd = CpuEncoder

(* ---------------------------- phrase search ---------------------------- *)
\* The words a caller types and the words a transcript holds: "B" differs
\* from "b" by its case only, and "-" is punctuation only.
PhraseTokens == {"a", "B", "-"}
SpokenTokens == {"a", "b", "-"}

\* normalize_token: NFKC, lower case, and the non-word characters at both
\* ends stripped; a token of punctuation only becomes empty.
normalize_token(w) ==
    CASE w = "B" -> "b"
      [] w = "-" -> ""
      [] OTHER -> w

\* str.lower() of one word.
Lower(w) == IF w = "B" THEN "b" ELSE w

Max0(x) == IF x > 0 THEN x ELSE 0

\* A text is the list of the pieces between its single spaces, so that a
\* space too many, at an end or between two words, is an empty piece.
\* str.split() keeps the pieces that are words.
Split(text) == SelectSeq(text, LAMBDA w : w # "")

\* The words of a transcript with their times: each word lasts one unit and
\* starts its gap after the end of the word before it.
RECURSIVE Timed(_, _)
Timed(ws, t) ==
    IF ws = <<>> THEN <<>>
    ELSE LET st == t + Head(ws).gap
         IN  <<[word |-> Head(ws).word, start |-> st, end |-> st + 1]>>
                 \o Timed(Tail(ws), st + 1)

\* The flat list of usable word entries.
all_words(sentences) ==
    SelectSeq(sentences, LAMBDA w : normalize_token(w.word) # "")

\* The tokens of the segment that are compared.
segment_words(segment) ==
    SelectSeq([k \in 1 .. Len(segment) |-> normalize_token(segment[k])],
              LAMBDA x : x # "")

WindowMatches_first_word(window, words) ==
    words # <<>> /\ window # <<>> /\ window[1] = words[1]

\* segment_words == window_normalized
WindowMatches(window, words) == window = words

\* The silences count for a segment of the threshold's words too.
GapAccepted_at_threshold(word_count, threshold, lo, hi, first, second) ==
    word_count <= threshold =>
        /\ lo <= first /\ first <= hi
        /\ lo <= second /\ second <= hi

\* The silences around a window count for a segment of fewer words than the
\* threshold only.
GapAccepted(word_count, threshold, lo, hi, first, second) ==
    word_count < threshold =>
        /\ lo <= first /\ first <= hi
        /\ lo <= second /\ second <= hi

find_matches_for_segment(segment, sentences, min_duration, max_duration, silence_word_threshold) ==
    LET aw == all_words(sentences)
        sw == segment_words(segment)
        word_count == Len(sw)
        total_available == Len(aw)
        Window(i) == [k \in 1 .. word_count |-> normalize_token(aw[i + k - 1].word)]
        first_silence(i) ==
            Max0(IF i > 1 THEN aw[i].start - aw[i - 1].end ELSE aw[i].start)
        second_silence(i) ==
            Max0(IF i + word_count <= total_available
                 THEN aw[i + word_count].start - aw[i + word_count - 1].end
                 ELSE max_duration)
        hits == SelectSeq([i \in 1 .. total_available - word_count + 1 |-> i],
                          LAMBDA i :
                              /\ WindowMatches(Window(i), sw)
                              /\ GapAccepted(word_count, silence_word_threshold,
                                             min_duration, max_duration,
                                             first_silence(i), second_silence(i)))
    IN  IF word_count = 0 \/ total_available = 0 THEN <<>>
        ELSE [h \in 1 .. Len(hits) |->
                 [segment |-> segment,
                  start |-> aw[hits[h]].start,
                  end |-> aw[hits[h] + word_count - 1].end,
                  first_silence |-> first_silence(hits[h]),
                  second_silence |-> second_silence(hits[h])]]

\* input_words[i:j] for every i < j, in the order of the two loops.
RECURSIVE SpansFrom(_, _)
SpansFrom(i, n) ==
    IF i >= n THEN <<>>
    ELSE [k \in 1 .. n - i |-> <<i, i + k>>] \o SpansFrom(i + 1, n)

\* The loop body of find_longest_matches and of its filtered variant: one
\* span is searched and the matches not in seen_ranges are kept.
\* " ".join(segment_words) is the text of single spaces, which is equal to
\* input_sentence only if that one has no space too many.
RECURSIVE SpanMatches(_, _, _, _, _, _, _, _)
SpanMatches(spans, input_sentence, sentences, min_silence, max_silence, threshold, min_words, matches) ==
    IF spans = <<>> THEN matches
    ELSE LET segment == SubSeq(Split(input_sentence), Head(spans)[1] + 1, Head(spans)[2])
             word_count == Len(segment)
             segment_min_silence ==
                 IF word_count < threshold THEN min_silence ELSE 0
             found_matches ==
                 find_matches_for_segment(segment, sentences, segment_min_silence,
                                          max_silence, threshold)
             new_matches ==
                 SelectSeq(found_matches, LAMBDA m :
                     ~ \E q \in 1 .. Len(matches) :
                           /\ matches[q].start = m.start
                           /\ matches[q].end = m.end
                           /\ matches[q].segment = segment)
         IN  SpanMatches(Tail(spans), input_sentence, sentences, min_silence,
                         max_silence, threshold, min_words,
                         IF word_count < min_words /\ segment # input_sentence
                         THEN matches ELSE matches \o new_matches)

find_longest_matches_filtered(input_sentence, sentences, min_silence, max_silence, silence_word_threshold, min_words) ==
    SpanMatches(SpansFrom(0, Len(Split(input_sentence))), input_sentence, sentences,
                min_silence, max_silence,
                IF silence_word_threshold > 1 THEN silence_word_threshold ELSE 1,
                min_words, <<>>)

find_longest_matches(input_sentence, sentences, min_silence, max_silence, silence_word_threshold) ==
    SpanMatches(SpansFrom(0, Len(Split(input_sentence))), input_sentence, sentences,
                min_silence, max_silence,
                IF silence_word_threshold > 1 THEN silence_word_threshold ELSE 1,
                0, <<>>)

\* The three ways the generator searches one file.
SearchFile(input_sentence, sentences, include_partial_matches, all_partial_matches, min_silence, max_silence, silence_word_threshold) ==
    IF ~include_partial_matches
    THEN find_matches_for_segment(
             input_sentence, sentences,
             IF Len(Split(input_sentence)) < silence_word_threshold
             THEN min_silence ELSE 0,
             max_silence, silence_word_threshold)
    ELSE IF ~all_partial_matches
    THEN find_longest_matches_filtered(input_sentence, sentences, min_silence,
                                       max_silence, silence_word_threshold, 3)
    ELSE find_longest_matches(input_sentence, sentences, min_silence,
                              max_silence, silence_word_threshold)

(* --------------------------- SegmentAggregator ------------------------- *)
\* load_transcript_sentences of one file: the sentences, None, or an
\* exception the loader does not catch (a sidecar that is not UTF-8).
Loaded(f) == f.load = "ok" /\ f.sentences # <<>>

\* all_file_matches, flattened: the matches of every file in file order.
RECURSIVE FileMatches(_, _, _)
FileMatches(files, k, r) ==
    IF k > Len(files) THEN <<>>
    ELSE (IF Loaded(files[k])
          THEN LET matches == SearchFile(r.input_sentence, files[k].sentences,
                                         r.include_partial_matches,
                                         r.all_partial_matches, r.min_silence,
                                         r.max_silence, r.silence_word_threshold)
               IN  [m \in 1 .. Len(matches) |-> [file |-> files[k].name, match |-> matches[m]]]
          ELSE <<>>) \o FileMatches(files, k + 1, r)

\* The keys of segment_groups in the order they were inserted.
RECURSIVE GroupKeys(_, _)
GroupKeys(flat, keys) ==
    IF flat = <<>> THEN keys
    ELSE GroupKeys(Tail(flat),
                   IF \E q \in 1 .. Len(keys) : keys[q] = Head(flat).match.segment
                   THEN keys ELSE Append(keys, Head(flat).match.segment))

\* segment_groups[segment]
SegmentGroup(flat, segment) ==
    SelectSeq(flat, LAMBDA e : e.match.segment = segment)

RECURSIVE SortedSegments_shortest_first(_, _, _)
SortedSegments_shortest_first(keys, n, top) ==
    IF n > top THEN <<>>
    ELSE SelectSeq(keys, LAMBDA seg : Len(Split(seg)) = n)
             \o SortedSegments_shortest_first(keys, n + 1, top)

\* sorted(keys, key=lambda s: len(s.split()), reverse=True): a stable sort,
\* so segments of one length stay in their order.  n counts down from top.
RECURSIVE SortedSegments(_, _, _)
SortedSegments(keys, n, top) ==
    IF n > top THEN <<>>
    ELSE SortedSegments(keys, n + 1, top)
             \o SelectSeq(keys, LAMBDA seg : Len(Split(seg)) = n)

\* ' '.join(seg.lower().split())
TextNormalized(seg) == [k \in 1 .. Len(Split(seg)) |-> Lower(Split(seg)[k])]

\* x in y, for two texts of whole words.
IsSubstring(x, y) ==
    \E k \in 0 .. Len(y) - Len(x) : SubSeq(y, k + 1, k + Len(x)) = x

\* A short segment that a longer one of the list contains.
ShortAndContained(seg, others) ==
    /\ Len(Split(seg)) < 3
    /\ \E q \in 1 .. Len(others) :
           /\ others[q] # seg
           /\ Len(Split(others[q])) > Len(Split(seg))
           /\ IsSubstring(TextNormalized(seg), TextNormalized(others[q]))

\* Full-match-only mode (lines 2261-2283).
FullMatchOnly(sorted_segments, input_sentence) ==
    SelectSeq(sorted_segments, LAMBDA seg :
        TextNormalized(seg) = TextNormalized(input_sentence))

Prioritized(sorted_segments, input_sentence) ==
    SelectSeq(sorted_segments, LAMBDA seg :
        \/ Len(Split(seg)) >= Len(Split(input_sentence))
        \/ TextNormalized(seg) = TextNormalized(input_sentence))

\* The shorter segments that no prioritized segment contains (2308-2319).
OtherSegments(sorted_segments, input_sentence) ==
    LET prioritized_segments == Prioritized(sorted_segments, input_sentence)
    IN  SelectSeq(sorted_segments, LAMBDA seg :
            /\ ~ (\/ Len(Split(seg)) >= Len(Split(input_sentence))
                  \/ TextNormalized(seg) = TextNormalized(input_sentence))
            /\ ~ \E q \in 1 .. Len(prioritized_segments) :
                     /\ Len(Split(prioritized_segments[q])) > Len(Split(seg))
                     /\ IsSubstring(TextNormalized(seg),
                                    TextNormalized(prioritized_segments[q])))

\* Partial modes when the full sentence was found (lines 2296-2358).
WithFullMatch(sorted_segments, input_sentence, all_partial_matches) ==
    LET prioritized_segments == Prioritized(sorted_segments, input_sentence)
        other_segments == OtherSegments(sorted_segments, input_sentence)
        listed == prioritized_segments \o other_segments
    IN  IF all_partial_matches THEN listed
        ELSE prioritized_segments
                 \o SelectSeq(other_segments,
                              LAMBDA seg : ~ ShortAndContained(seg, listed))

\* Partial modes when it was not (lines 2360-2399).
WithoutFullMatch(sorted_segments, all_partial_matches) ==
    IF all_partial_matches THEN sorted_segments
    ELSE SelectSeq(sorted_segments,
                   LAMBDA seg : ~ ShortAndContained(seg, sorted_segments))

\* The segments the generator goes on to render, in their order.
SegmentsToRender(flat, r) ==
    LET sorted_segments ==
            SortedSegments(GroupKeys(flat, <<>>), 1, Len(r.input_sentence))
        full_match_exists ==
            \E q \in 1 .. Len(sorted_segments) :
                TextNormalized(sorted_segments[q]) = TextNormalized(r.input_sentence)
    IN  IF ~r.include_partial_matches
        THEN FullMatchOnly(sorted_segments, r.input_sentence)
        ELSE IF full_match_exists
        THEN WithFullMatch(sorted_segments, r.input_sentence, r.all_partial_matches)
        ELSE WithoutFullMatch(sorted_segments, r.all_partial_matches)

\* lst[:n] of python: a negative n counts from the end.
PySlice(lst, n) ==
    IF n >= 0 THEN Take(lst, n) ELSE Take(lst, Max0(Len(lst) + n))

(* ------------------------- one search, followed ------------------------ *)
\* extract_silence_preferences: a maximum below the minimum is raised to it.
extract_silence_preferences(minSilence, maxSilence) ==
    [min_silence |-> minSilence,
     max_silence |-> IF maxSilence < minSilence THEN minSilence ELSE maxSilence]

\* The arguments of one call of find_and_export_segments_generator, with the
\* payload's two silences as the caller sent them, and its locals.
SearchRequest(input_sentence, files, include_partial_matches, all_partial_matches, minSilence, maxSilence, silence_word_threshold, max_results_per_segment) ==
    [pc |-> "search",
     input_sentence |-> input_sentence,
     files |-> files,
     include_partial_matches |-> include_partial_matches,
     all_partial_matches |-> all_partial_matches,
     minSilence |-> minSilence,
     maxSilence |-> maxSilence,
     min_silence |-> extract_silence_preferences(minSilence, maxSilence).min_silence,
     max_silence |-> extract_silence_preferences(minSilence, maxSilence).max_silence,
     silence_word_threshold |->
         IF silence_word_threshold > 1 THEN silence_word_threshold ELSE 1,
     max_results_per_segment |-> max_results_per_segment,
     all_file_matches |-> <<>>,
     sorted_segments |-> <<>>,
     seg |-> 1,
     segment_matches |-> <<>>,
     out |-> <<>>]

sessionVars == <<GPU_ENCODER_CACHE, GPU_DISABLED, GPU_ENCODING_SEMAPHORE,
                 max_workers, CANCELLED_SEARCHES, SKIP_SEGMENTS, clipDirs,
                 found, req, sess, tasks, doneQ>>

\* The search of the files and the choice of the segments (lines 2184-2399).
\* An exception of the loader leaves the generator; without a segment to
\* render the generator returns.
SearchFiles ==
    /\ srch.pc = "search"
    /\ IF \E k \in 1 .. Len(srch.files) : srch.files[k].load = "raises"
       THEN srch' = [srch EXCEPT !.pc = "raised"]
       ELSE LET flat == FileMatches(srch.files, 1, srch)
                sorted_segments ==
                    IF flat = <<>> THEN <<>> ELSE SegmentsToRender(flat, srch)
            IN  srch' = [srch EXCEPT
                    !.all_file_matches = flat,
                    !.sorted_segments = sorted_segments,
                    !.pc = IF sorted_segments = <<>> THEN "returned" ELSE "segments"]
    /\ UNCHANGED <<sessionVars, out>>

\* One round of the loop over sorted_segments (lines 2603-3004) in which no
\* signal arrives and every clip renders: the group is cut to the cap, one
\* task is made for each of its matches, and the segment event lists their
\* files.
RenderSegment ==
    /\ srch.pc = "segments"
    /\ LET segment == srch.sorted_segments[srch.seg]
           segment_matches ==
               PySlice(SegmentGroup(srch.all_file_matches, segment),
                       srch.max_results_per_segment)
           files == [k \in 1 .. Len(segment_matches) |->
                        <<segment_matches[k].file, segment_matches[k].match.start>>]
       IN  srch' = [srch EXCEPT
               !.segment_matches = segment_matches,
               !.out = Append(@, SegmentEvent(1, segment, files, FALSE)),
               !.seg = @ + 1,
               !.pc = IF srch.seg = Len(srch.sorted_segments)
                      THEN "returned" ELSE "segments"]
    /\ UNCHANGED <<sessionVars, out>>

\* generate() catches the exception and sends an error event (1164-1172).
ReportError ==
    /\ srch.pc = "raised"
    /\ srch' = [srch EXCEPT !.out = Append(@, ErrorEvent(1)), !.pc = "returned"]
    /\ UNCHANGED <<sessionVars, out>>

\* The generator is exhausted; its sentence was the last one, and generate()
\* sends the completion event (1180-1186).
Complete ==
    /\ srch.pc = "returned"
    /\ srch' = [srch EXCEPT
           !.out = Append(@, DoneEvent(Len(SegmentEvents(srch.out)), 0)),
           !.pc = "finished"]
    /\ UNCHANGED <<sessionVars, out>>

SearchNext ==
    \/ SearchFiles
    \/ RenderSegment
    \/ ReportError
    \/ Complete

\* The sentences and transcripts the searches are drawn from.
MaxPhrase == 3
MaxWords == 3
MaxGapPhrase == 2

Phrases(n) == UNION {[1 .. k -> PhraseTokens] : k \in 1 .. n}

Transcripts(gaps) ==
    {Timed(ws, 0) :
        ws \in UNION {[1 .. k -> [word : SpokenTokens, gap : gaps]] :
                         k \in 0 .. MaxWords}}

\* A file of the request: its name and what the loader makes of it.
OkFile(name, sentences) == [name |-> name, load |-> "ok", sentences |-> sentences]
NoTranscript(name) == [name |-> name, load |-> "none", sentences |-> <<>>]
BrokenTranscript(name) == [name |-> name, load |-> "raises", sentences |-> <<>>]

\* One file with a transcript, alone or after a file that has none, or
\* before one whose sidecar cannot be decoded, or named twice in the list.
FileLists(sentences) ==
    {<<OkFile(1, sentences)>>,
     <<NoTranscript(1), OkFile(2, sentences)>>,
     <<OkFile(1, sentences), BrokenTranscript(2)>>,
     <<OkFile(1, sentences), OkFile(1, sentences)>>}

\* The caps a caller sends: sanitize_int takes any integer.
Caps == {-1, 1, 2, DEFAULT_MAX_RESULTS}

\* A process after startup that serves no stream.
InitIdle ==
    /\ GPU_ENCODER_CACHE = NoEncoder
    /\ GPU_DISABLED = FALSE
    /\ GPU_ENCODING_SEMAPHORE = MAX_GPU_STREAMS
    /\ max_workers = 1
    /\ CANCELLED_SEARCHES = {}
    /\ SKIP_SEGMENTS = <<>>
    /\ clipDirs = [g \in Sentences |-> NoDir]
    /\ found = [x \in Sentences |-> <<>>]
    /\ req = <<>>
    /\ sess = <<>>
    /\ tasks = <<>>
    /\ doneQ = <<>>
    /\ out = <<>>

\* Searches of every mode and cap over words one unit apart, with the
\* silences and the threshold of the endpoint's defaults.
InitSearch ==
    /\ InitIdle
    /\ srch \in {SearchRequest(p, fl, ip, ap, 0, 10, 2, cap) :
                    p \in Phrases(MaxPhrase),
                    fl \in UNION {FileLists(t) : t \in Transcripts({1})},
                    ip \in BOOLEAN, ap \in BOOLEAN, cap \in Caps}

SpecSearch == InitSearch /\ [][SearchNext]_vars

\* Searches of one file over words with short, fitting and long silences.
Gaps == {0, 1, 3}
MinSilences == {0, 1}
Thresholds == {1, 2}

\* full match only, filtered partial matches, all partial matches
Modes == {<<FALSE, FALSE>>, <<TRUE, FALSE>>, <<TRUE, TRUE>>}

InitMatch ==
    /\ InitIdle
    /\ srch \in {SearchRequest(p, <<OkFile(1, t)>>, m[1], m[2], lo, 2, th,
                               DEFAULT_MAX_RESULTS) :
                    p \in Phrases(MaxGapPhrase), t \in Transcripts(Gaps),
                    m \in Modes, lo \in MinSilences, th \in Thresholds}

\* Every file of these searches has its transcript.
MatchNext ==
    \/ SearchFiles
    \/ RenderSegment
    \/ Complete

SpecMatch == InitMatch /\ [][MatchNext]_vars

(* ------------------------- claims on the search ------------------------ *)
\* The segment events the search has sent so far.
Sent == SegmentEvents(srch.out)

\* len(s.split()) of an event's phrase
WordCount(e) == Len(e.phrase)

\* C11: the segment events of a search are sent in non-increasing order of
\* the word count of their phrase, in every mode.
C11_LongestPhraseFirst ==
    \A i \in 1 .. Len(Sent) : \A j \in i + 1 .. Len(Sent) :
        WordCount(Sent[i]) >= WordCount(Sent[j])

\* C11 witness: a finished search with all partial matches has sent phrases
\* of two words and then phrases of one word.
C11_WitnessShorterAfterLonger ==
    /\ srch.pc = "finished"
    /\ srch.include_partial_matches /\ srch.all_partial_matches
    /\ Len(Sent) >= 3
    /\ WordCount(Sent[1]) = 2
    /\ WordCount(Sent[Len(Sent)]) = 1

\* C12: whatever cap the caller sends, no segment event lists more files
\* than the cap, and no more render tasks than the cap are made for one
\* segment (a cap below one allows none).
C12_GroupWithinCap ==
    /\ \A i \in 1 .. Len(Sent) :
           Len(Sent[i].files) <= Max0(srch.max_results_per_segment)
    /\ srch.pc \in {"segments", "returned", "finished"} =>
           Len(srch.segment_matches) <= Max0(srch.max_results_per_segment)

\* The search of the files is over.
Searched == srch.pc \in {"segments", "returned", "finished"}

\* The start times of the windows of a transcript that say the segment.
SayingWindows(segment, sentences) ==
    LET aw == all_words(sentences)
        sw == segment_words(segment)
    IN  {aw[i].start : i \in {x \in 1 .. Len(aw) - Len(sw) + 1 :
            sw # <<>> /\ [k \in 1 .. Len(sw) |-> normalize_token(aw[x + k - 1].word)] = sw}}

\* len(segment.split()) and len(segment_words): the words of a span as the
\* callers count them and as find_matches_for_segment does.
RawCount(segment) == Len(segment)
IndexableCount(segment) == Len(segment_words(segment))

CountBy(counting, segment) ==
    IF counting = "raw" THEN RawCount(segment) ELSE IndexableCount(segment)

\* Both silences of a match lie between the caller's minimum and maximum.
WithinCallersGaps(m) ==
    /\ srch.minSilence <= m.first_silence /\ m.first_silence <= srch.maxSilence
    /\ srch.minSilence <= m.second_silence /\ m.second_silence <= srch.maxSilence

\* The rule of C13 under one way of counting the words of a span: a match of
\* a span below the threshold is within the gaps, and the sentence of a
\* full-match-only search at or above it is matched at every window.
SilenceGapRule(counting) ==
    /\ \A q \in 1 .. Len(srch.all_file_matches) :
           LET m == srch.all_file_matches[q].match
           IN  CountBy(counting, m.segment) < srch.silence_word_threshold => WithinCallersGaps(m)
    /\ (/\ ~srch.include_partial_matches
        /\ CountBy(counting, srch.input_sentence) >= srch.silence_word_threshold)
       => \A t \in SayingWindows(srch.input_sentence, srch.files[1].sentences) :
              \E q \in 1 .. Len(srch.all_file_matches) :
                  srch.all_file_matches[q].match.start = t

\* C13: every match of a span with fewer words than the threshold has both
\* its gaps within the caller's minGap and maxGap, and a span with at least
\* as many words is accepted whatever its gaps: under one of the two ways
\* the code counts the words of a span.
C13_SilenceGapInvariant ==
    Searched => SilenceGapRule("raw") \/ SilenceGapRule("indexable")

\* The start times of the windows that say the segment and that the gap rule
\* lets through, under one way of counting the words of the segment, when the
\* gaps are held against the caller's two silences.
AllowedWindows(counting, segment, sentences) ==
    LET aw == all_words(sentences)
        n == Len(segment_words(segment))
        before(i) == Max0(IF i > 1 THEN aw[i].start - aw[i - 1].end ELSE aw[i].start)
        after(i) == Max0(IF i + n <= Len(aw)
                         THEN aw[i + n].start - aw[i + n - 1].end
                         ELSE srch.maxSilence)
    IN  {aw[i].start : i \in {x \in 1 .. Len(aw) - n + 1 :
            /\ n > 0
            /\ aw[x].start \in SayingWindows(segment, sentences)
            /\ CountBy(counting, segment) < srch.silence_word_threshold =>
                   /\ srch.minSilence <= before(x) /\ before(x) <= srch.maxSilence
                   /\ srch.minSilence <= after(x) /\ after(x) <= srch.maxSilence}}

\* What the search of the files returned: the start times, and the segments.
ReturnedWindows ==
    {srch.all_file_matches[q].match.start : q \in 1 .. Len(srch.all_file_matches)}
ReturnedSegments ==
    {srch.all_file_matches[q].match.segment : q \in 1 .. Len(srch.all_file_matches)}

\* C14: a full-match-only search returns exactly the windows of the
\* transcript that say the sentence and pass the gap rule, and nothing else;
\* a sentence without an indexable token returns no match.
C14_FullMatchExactly ==
    (Searched /\ ~srch.include_partial_matches) =>
        /\ ReturnedSegments \subseteq {srch.input_sentence}
        /\ \/ ReturnedWindows =
                  AllowedWindows("raw", srch.input_sentence, srch.files[1].sentences)
           \/ ReturnedWindows =
                  AllowedWindows("indexable", srch.input_sentence, srch.files[1].sentences)
        /\ segment_words(srch.input_sentence) = <<>> => srch.all_file_matches = <<>>

\* The phrases of the segment events sent.
SentPhrases == {Sent[i].phrase : i \in 1 .. Len(Sent)}

\* C18: with partial matches and all partial matches asked for, every span
\* of the sentence that has an accepted match in some file gets a segment
\* event, also when the whole sentence has a match.
C18_EveryMatchedSpanReported ==
    (/\ srch.pc = "finished"
     /\ srch.include_partial_matches /\ srch.all_partial_matches)
        => ReturnedSegments \subseteq SentPhrases

\* A full-match-only search in whose transcript no window says the sentence.
NothingSaysIt ==
    /\ ~srch.include_partial_matches
    /\ SayingWindows(srch.input_sentence, srch.files[1].sentences) = {}

\* C19: a full-match-only search in which no window matches the whole
\* sentence sends no segment event and no error event, and its stream ends
\* with the completion event.
C19_NoMatchIsNotAnError ==
    NothingSaysIt =>
        /\ \A i \in 1 .. Len(srch.out) : srch.out[i].type = "done"
        /\ srch.pc = "finished" => srch.out = <<DoneEvent(0, 0)>>

\* C19 witness: the stream of such a search has ended, over a transcript
\* that has words and a sentence that has an indexable token.
C19_WitnessNoMatchFinished ==
    /\ NothingSaysIt
    /\ srch.pc = "finished"
    /\ all_words(srch.files[1].sentences) # <<>>
    /\ segment_words(srch.input_sentence) # <<>>

\* The files of the search whose transcript could not be obtained or is
\* empty, and what the other files yield when they are searched alone.
BadFiles == {k \in 1 .. Len(srch.files) : ~Loaded(srch.files[k])}
GoodFilesAlone ==
    FileMatches(SelectSeq(srch.files, LAMBDA f : Loaded(f)), 1, srch)

\* C20: a file whose transcript cannot be obtained or is empty is skipped
\* without an error event, and the matches of the other files are still
\* found and reported.
C20_BadFileIsSkipped ==
    (srch.pc = "finished" /\ BadFiles # {}) =>
        /\ \A i \in 1 .. Len(srch.out) : srch.out[i].type # "error"
        /\ GoodFilesAlone # <<>> => Sent # <<>>

(* ------------------------ claims on the sessions ----------------------- *)
\* A step in which the search of stream s ends: generate() goes on to the
\* next sentence (the generator completed or failed with an error), or it is
\* left by a cancellation or by the client's disconnect.
SearchEnds(s) ==
    \/ sess'[s].grp = sess[s].grp + 1
    \/ sess[s].pc \in ActivePcs /\ sess'[s].pc \in {"aborted", "disconnected"}

\* C15: whenever a search completes, fails with an error, or is aborted by a
\* cancellation or a client disconnect, its identifier has no skip set and is
\* not in the cancelled set immediately afterwards.
C15_TeardownOnEveryExit ==
    [][\A s \in Streams :
          SearchEnds(s) => /\ CurId(s) \notin DOMAIN SKIP_SEGMENTS'
                           /\ CurId(s) \notin CANCELLED_SEARCHES']_vars

\* C15 witness: a search was cancelled and has been aborted, and neither
\* registry holds its identifier.
C15_WitnessAbortedAndCleared ==
    \E s \in Streams :
        /\ sess[s].pc = "aborted"
        /\ CurId(s) \notin DOMAIN SKIP_SEGMENTS
        /\ CurId(s) \notin CANCELLED_SEARCHES

\* One stream that searches the same sentence twice over the same files: the
\* second search finds the clip directory the first one left.
InitRepeat ==
    /\ InitProcess
    /\ found \in {f \in [Sentences -> SegLists] :
                     /\ SumSeq(f[1]) = 2
                     /\ \A x \in Sentences \ {1} : f[x] = <<>>}
    /\ req = [s \in {1} |-> [counter |-> 0, groups |-> <<1, 1>>]]
    /\ sess = [s \in {1} |-> NewSess]
    /\ tasks = [s \in {1} |-> <<>>]
    /\ doneQ = [s \in {1} |-> <<>>]
    /\ out = [s \in {1} |-> <<>>]
    /\ srch = NoSearch

SpecRepeat == InitRepeat /\ [][Next]_vars

\* The clips the search of stream s is to render.
ClipsWanted(s) == SumSeq(SegmentClips(s))

\* C16: when the stored metadata matches the request's files but a cached
\* clip is missing or no valid cached clip remains, the search purges the
\* clip directory and renders every clip fresh.
C16_StaleCacheIsPurged ==
    [][\A s \in Streams :
          (/\ SearchStart(s)
           /\ clipDirs[CurGroup(s)].meta = SourceFiles(s)
           /\ Cardinality(clipDirs[CurGroup(s)].files) < ClipsWanted(s))
              => /\ clipDirs'[CurGroup(s)] = EmptyDir
                 /\ ~sess'[s].skip_export]_vars

\* C17: whenever a search with clip export ends and its clip directory holds
\* no clip (nothing matched, or every encode failed), the directory does not
\* exist afterwards.
C17_NoEmptyArtifacts ==
    [][\A s \in Streams :
          (/\ sess'[s].grp = sess[s].grp + 1
           /\ clipDirs'[CurGroup(s)].files = {})
              => ~clipDirs'[CurGroup(s)].exists]_vars


(* ---------------------- pure functions, called ------------------------- *)
\* One call of a matcher with its arguments, before it returns.
MatcherCall(fn, segment, sentences, min_duration, max_duration, threshold) ==
    [pc |-> "call", fn |-> fn, segment |-> segment, sentences |-> sentences,
     min_duration |-> min_duration, max_duration |-> max_duration,
     silence_word_threshold |-> threshold, result |-> <<>>]

\* find_matches_for_segment runs and returns its list.
CallFindMatches ==
    /\ srch.pc = "call"
    /\ srch.fn = "find_matches_for_segment"
    /\ srch' = [srch EXCEPT
           !.result = find_matches_for_segment(
                          srch.segment, srch.sentences, srch.min_duration,
                          srch.max_duration, srch.silence_word_threshold),
           !.pc = "done"]
    /\ UNCHANGED <<sessionVars, out>>

\* The transcript of the scenarios, in tenths of a second:
\* hello[0.0-0.4] world[0.6-1.0] today[2.5-3.0].
ScenarioWords ==
    <<[word |-> "hello", start |-> 0, end |-> 4],
      [word |-> "world", start |-> 6, end |-> 10],
      [word |-> "today", start |-> 25, end |-> 30]>>

\* The scenario's phrases over that transcript, with the silences of the
\* scenario (0 and 10 s) and with silences its gaps do not fit (0.5 and 1 s).
ScenarioCalls ==
    {MatcherCall("find_matches_for_segment", p, ScenarioWords, lo, hi, th) :
        p \in {<<"hello", "world">>, <<"world">>, <<"hello", "world", "today">>},
        lo \in {0, 5}, hi \in {100, 10}, th \in {1, 2, 3}}

\* find_longest_matches runs and returns its list.
CallLongest ==
    /\ srch.pc = "call"
    /\ srch.fn = "find_longest_matches"
    /\ srch' = [srch EXCEPT
           !.result = find_longest_matches(
                          srch.segment, srch.sentences, srch.min_duration,
                          srch.max_duration, srch.silence_word_threshold),
           !.pc = "done"]
    /\ UNCHANGED <<sessionVars, out>>

\* find_longest_matches_filtered runs with the min_words of its one caller.
CallFiltered ==
    /\ srch.pc = "call"
    /\ srch.fn = "find_longest_matches_filtered"
    /\ srch' = [srch EXCEPT
           !.result = find_longest_matches_filtered(
                          srch.segment, srch.sentences, srch.min_duration,
                          srch.max_duration, srch.silence_word_threshold, 3),
           !.pc = "done"]
    /\ UNCHANGED <<sessionVars, out>>

\* The paddings of a clip, in hundredths of a second.
DEFAULT_CLIP_START_PADDING == 45
DEFAULT_CLIP_END_PADDING == 45

\* The range render_single_clip cuts for a match of a source of the given
\* duration (hundredths of a second), and whether it raises ValueError
\* instead of building the command of the encoder.
ClipRange(match_start, match_end, video_duration) ==
    LET clip_start ==
            Min(Max0(match_start - DEFAULT_CLIP_START_PADDING), video_duration - 10)
        clamped_end == Min(match_end + DEFAULT_CLIP_END_PADDING, video_duration)
        clip_duration == Max0(match_end - match_start)
        min_extension == DEFAULT_CLIP_START_PADDING + DEFAULT_CLIP_END_PADDING
        extended == IF clip_duration + min_extension > 10
                    THEN clip_duration + min_extension ELSE 10
        clip_end == IF clamped_end <= clip_start
                    THEN Min(clip_start + extended, video_duration)
                    ELSE clamped_end
    IN  [clip_start |-> clip_start, clip_end |-> clip_end,
         raises |-> clip_start >= clip_end]

\* One call of render_single_clip up to the command of the encoder.
ClipCall(match_start, match_end, video_duration) ==
    [pc |-> "call", fn |-> "render_single_clip", match_start |-> match_start,
     match_end |-> match_end, video_duration |-> video_duration,
     result |-> <<>>]

\* render_single_clip computes the range and goes on to the encoder with it,
\* or raises.
CallClipRange ==
    /\ srch.pc = "call"
    /\ srch.fn = "render_single_clip"
    /\ LET r == ClipRange(srch.match_start, srch.match_end, srch.video_duration)
       IN  srch' = [srch EXCEPT
               !.result = r,
               !.pc = IF r.raises THEN "raised" ELSE "encoder"]
    /\ UNCHANGED <<sessionVars, out>>

\* Matches at the start, inside, at the end of and beyond sources that last
\* 0.05 s, 0.1 s, 0.5 s, 1.2 s and 4 s; a match may end before it starts.
ClipTimes == {0, 20, 45, 100, 300}
Durations == {5, 10, 50, 120, 400}

ClipCalls ==
    {ClipCall(ms, me, d) : ms \in ClipTimes, me \in ClipTimes, d \in Durations}

\* The texts a caller sends as one sentence: up to MaxPieces pieces, each a
\* word or empty, with a word among them.
MaxPieces == 4

Texts ==
    {t \in UNION {[1 .. k -> {"a", "B", ""}] : k \in 1 .. MaxPieces} :
        Split(t) # <<>>}

\* The two phrase matchers over every text and every transcript of words
\* one unit apart, with the silences and the threshold of the defaults.
PhraseCalls ==
    {MatcherCall(fn, t, w, 0, 10, 2) :
        fn \in {"find_longest_matches", "find_longest_matches_filtered"},
        t \in Texts, w \in Transcripts({1})}

InitCalls ==
    /\ InitIdle
    /\ srch \in ScenarioCalls \cup PhraseCalls \cup ClipCalls

CallsNext ==
    \/ CallFindMatches
    \/ CallLongest
    \/ CallFiltered
    \/ CallClipRange

SpecCalls == InitCalls /\ [][CallsNext]_vars

(* ------------------------ claims on the matchers ----------------------- *)
\* The call has returned.
CallDone(fn) == srch.pc = "done" /\ srch.fn = fn

\* Scenario A: "hello world" over the scenario's transcript with threshold 2.
ScenarioA ==
    /\ CallDone("find_matches_for_segment")
    /\ srch.segment = <<"hello", "world">>
    /\ srch.sentences = ScenarioWords
    /\ srch.silence_word_threshold = 2

\* start 0.0, end 1.0, gap-before 0.0, gap-after 1.5
MatchA ==
    [segment |-> <<"hello", "world">>, start |-> 0, end |-> 10,
     first_silence |-> 0, second_silence |-> 15]

\* Both silences of a match lie within the caller's two bounds.
GapsWithin(m, lo, hi) ==
    /\ lo <= m.first_silence /\ m.first_silence <= hi
    /\ lo <= m.second_silence /\ m.second_silence <= hi

\* C21, as stated: in scenario A the phrase of 2 words is subject to the gap
\* check with threshold 2, that is, its one match (start 0.0, end 1.0,
\* gap-before 0.0, gap-after 1.5) is returned when both gaps lie within
\* [minGap, maxGap], as they do for minGap 0 and maxGap 10, and only then.
C21_ScenarioAGapChecked ==
    ScenarioA =>
        srch.result =
            IF GapsWithin(MatchA, srch.min_duration, srch.max_duration)
            THEN <<MatchA>> ELSE <<>>

\* C21, amended: in scenario A the phrase of 2 words is not subject to the
\* gap check, 2 being not below the threshold 2; its one match (start 0.0,
\* end 1.0, gap-before 0.0, gap-after 1.5) is returned for minGap 0 and
\* maxGap 10 and for every other pair of bounds.
C21_ScenarioAExempt ==
    ScenarioA => srch.result = <<MatchA>>

\* C21: scenario A has run with minGap 0 and maxGap 10 and gave its match.
C21_WitnessScenarioA ==
    /\ ScenarioA
    /\ srch.min_duration = 0
    /\ srch.max_duration = 100
    /\ srch.result = <<MatchA>>

\* The matches of find_longest_matches for the arguments of the call whose
\* span has 3 words or more or is the whole phrase.
LongOrFullMatches ==
    SelectSeq(find_longest_matches(srch.segment, srch.sentences,
                                   srch.min_duration, srch.max_duration,
                                   srch.silence_word_threshold),
              LAMBDA m : Len(m.segment) >= 3 \/ m.segment = Split(srch.segment))

\* C23: find_longest_matches_filtered returns the matches of
\* find_longest_matches whose span has at least 3 words or is the full
\* phrase, so that a full phrase of 1 or 2 words is searched however the
\* caller's phrase string is spaced.
C23_FilteredKeepsFullPhrase ==
    CallDone("find_longest_matches_filtered") => srch.result = LongOrFullMatches

(* ---------------------- claims on partial matches ---------------------- *)
\* Searches with filtered partial matches for phrases long enough to have
\* two spans of 3 words or more below the full phrase, in one file.
MaxLongPhrase == 5
MaxLongWords == 4

InitPartial ==
    /\ InitIdle
    /\ srch \in {SearchRequest(p, <<OkFile(1, Timed(ws, 0))>>, TRUE, FALSE, 0, 10, 2,
                               DEFAULT_MAX_RESULTS) :
                    p \in UNION {[1 .. k -> {"a", "B"}] : k \in 1 .. MaxLongPhrase},
                    ws \in UNION {[1 .. k -> [word : {"a", "b"}, gap : {1}]] :
                                     k \in 0 .. MaxLongWords}}

SpecPartial == InitPartial /\ [][MatchNext]_vars

\* C22: with partial matches filtered, a segment event for a span shorter
\* than the full phrase is sent only if the span is a contiguous sub-span of
\* no longer span that is sent, whether the full phrase was found or not.
C22_NoDominatedSpanIsSent ==
    srch.pc = "finished" =>
        \A i \in 1 .. Len(Sent) : \A j \in 1 .. Len(Sent) :
            /\ WordCount(Sent[i]) < Len(Split(srch.input_sentence))
            /\ WordCount(Sent[j]) > WordCount(Sent[i])
            => ~ IsSubstring(Sent[i].phrase, Sent[j].phrase)

(* ------------------------ claims on the clips -------------------------- *)
\* C24: the range of every task that reaches the encoder satisfies
\* 0 <= clipStart < clipEnd <= sourceDuration, for every source duration
\* above 0 and every match range.
C24_ClipWithinSource ==
    srch.pc = "encoder" =>
        /\ 0 <= srch.result.clip_start
        /\ srch.result.clip_start < srch.result.clip_end
        /\ srch.result.clip_end <= srch.video_duration

(* ----------------------- claims on the groups -------------------------- *)
\* The source file and the range of an entry of a group.
MatchKey(e) == <<e.file, e.match.start, e.match.end>>

\* C25: within the group of one segment no two matches have the same source
\* file, start and end, for every request, also when the file list names a
\* file twice or a span text repeats in the phrase.
C25_GroupHasNoDuplicate ==
    Searched =>
        \A seg \in SeqSet(GroupKeys(srch.all_file_matches, <<>>)) :
            LET group == SegmentGroup(srch.all_file_matches, seg)
            IN  \A i \in 1 .. Len(group) : \A j \in 1 .. Len(group) :
                    i # j => MatchKey(group[i]) # MatchKey(group[j])

(* ------------------- the encodes of a batch, recorded ------------------ *)
\* The history of the encode processes of the batch of each stream: for each
\* task the encoder and the outcome of every subprocess.run that returned or
\* timed out, in their order.
EncodeLog(S) == [pc |-> "encodes", log |-> [s \in S |-> <<>>]]

\* The history after a step that ran no encode to its end: a batch that was
\* just submitted starts with empty histories.
KeepLog ==
    srch' = [srch EXCEPT !.log =
        [s \in DOMAIN @ |->
            IF tasks'[s] # tasks[s]
                   /\ \A i \in DOMAIN tasks'[s] : tasks'[s][i].st = "queued"
            THEN [i \in DOMAIN tasks'[s] |-> <<>>]
            ELSE @[s]]]

\* The history after the encode of task i came back with outcome o.
LogEncode(s, i, o) ==
    srch' = [srch EXCEPT !.log[s][i] =
                Append(@, [cmd |-> tasks[s][i].cmd, o |-> o])]

\* One stream with one sentence that has at most MaxLogged clips, on a
\* machine whose pool lets two tasks run at once.
MaxLogged == 2

InitEncode ==
    /\ InitProcess
    /\ InitStreams({1})
    /\ max_workers = 2
    /\ Len(req[1].groups) = 1
    /\ TotalClips(found, req[1].groups) <= MaxLogged
    /\ srch = EncodeLog({1})

EncodeNext ==
    \/ \E id \in RunningIds : \E ph \in PendingPhrases(id) : SkipSegment(id, ph) /\ KeepLog
    \/ \E id \in RunningIds : CancelSearch(id) /\ KeepLog
    \/ \E s \in Streams : SearchStart(s) /\ KeepLog
    \/ \E s \in Streams : SegmentBegin(s) /\ KeepLog
    \/ \E s \in Streams : Harvest(s) /\ KeepLog
    \/ \E s \in Streams : CancelFuture(s) /\ KeepLog
    \/ \E s \in Streams : AfterCancel(s) /\ KeepLog
    \/ \E s \in Streams : BatchExit(s) /\ KeepLog
    \/ \E s \in Streams : LegacyLoop(s) /\ KeepLog
    \/ \E s \in Streams : SearchEnd(s) /\ KeepLog
    \/ \E s \in Streams : StreamDone(s) /\ KeepLog
    \/ \E s \in Streams : Disconnect(s) /\ KeepLog
    \/ \E s \in Streams : \E i \in 1 .. Len(tasks[s]) : TaskStart(s, i) /\ KeepLog
    \/ \E s \in Streams : \E i \in 1 .. Len(tasks[s]) : TaskPrepare(s, i) /\ KeepLog
    \/ \E s \in Streams : \E i \in 1 .. Len(tasks[s]) : TaskRelease(s, i) /\ KeepLog
    \/ \E s \in Streams : \E i \in 1 .. Len(tasks[s]) :
           \E o \in Outcomes : EncodeExit(s, i, o) /\ LogEncode(s, i, o)
    \/ \E s \in Streams : \E i \in 1 .. Len(tasks[s]) :
           \E o \in Outcomes : MinimalExit(s, i, o) /\ LogEncode(s, i, o)
    \/ \E s \in Streams : \E i \in 1 .. Len(tasks[s]) :
           \E o \in Outcomes : CpuExit(s, i, o) /\ LogEncode(s, i, o)

SpecEncode == InitEncode /\ [][EncodeNext]_vars

(* ------------------------ claims on the encodes ------------------------ *)
\* The history of task i of stream s.
Encodes(s, i) == srch.log[s][i]

\* In this step an encode of task i came back with outcome o: the first
\* encode of the task if first, else any encode of it.
EncodeCameBack(s, i, o, first) ==
    /\ i \in DOMAIN tasks[s]
    /\ i \in DOMAIN srch.log[s]
    /\ i \in DOMAIN srch'.log[s]
    /\ Len(srch'.log[s][i]) = Len(Encodes(s, i)) + 1
    /\ srch'.log[s][i][Len(Encodes(s, i)) + 1].o = o
    /\ first => Encodes(s, i) = <<>>

\* The step changes no task but task i of stream s.
OnlyTask(s, i) ==
    /\ \A x \in Streams \ {s} : tasks'[x] = tasks[x]
    /\ DOMAIN tasks'[s] = DOMAIN tasks[s]
    /\ \A j \in DOMAIN tasks[s] \ {i} : tasks'[s][j] = tasks[s][j]

\* C26: when the encode of a task exits non-zero with an exit code and
\* diagnostics that match no GPU failure signature, no retry is started, the
\* GPU capability state of the process stays as it was, and that task, and
\* no other, is failed.
C26_PlainFailureIsLocal ==
    [][\A s \in Streams : \A i \in 1 .. MaxClips :
          EncodeCameBack(s, i, "fail", TRUE)
              => /\ tasks'[s][i].st = "failed"
                 /\ UNCHANGED gpuVars
                 /\ OnlyTask(s, i)]_vars

\* C26 witness: a task whose GPU-backed encode failed without a signature is
\* failed after that one encode, GPU support is still enabled and its sibling
\* is encoding.
C26_WitnessPlainFailure ==
    \E i \in DOMAIN tasks[1] : \E j \in DOMAIN tasks[1] :
        /\ i \in DOMAIN srch.log[1]
        /\ Len(Encodes(1, i)) = 1
        /\ Encodes(1, i)[1].o = "fail"
        /\ Encodes(1, i)[1].cmd \in Encoders
        /\ tasks[1][i].st = "failed"
        /\ j # i
        /\ tasks[1][j].st \in EncodingStates
        /\ ~GPU_DISABLED
        /\ GPU_ENCODER_CACHE \in Encoders

\* In this step task i of stream s disables GPU support: it goes on to the
\* libx264 retry and the flag is set.
Disables(s, i) ==
    /\ i \in DOMAIN tasks[s]
    /\ i \in DOMAIN tasks'[s]
    /\ tasks[s][i].st \in {"enc", "encMin"}
    /\ tasks'[s][i].st = "encCpu"
    /\ ~GPU_DISABLED
    /\ GPU_DISABLED'

\* C27: GPU support is disabled only by a task whose failed encode used the
\* GPU encoder; a task that ran on the CPU path, without a permit, never
\* disables it, whatever its exit code or diagnostics.
C27_OnlyGpuEncodeDisables ==
    [][\A s \in Streams : \A i \in 1 .. MaxClips :
          Disables(s, i) => tasks[s][i].use_gpu]_vars

\* The encodes of one task are its first one, then at most one with the
\* minimal NVENC parameters, then at most one with libx264.
Lifecycle(h) ==
    /\ Len(h) <= 3
    /\ \A k \in 2 .. Len(h) : h[k].cmd \in {MinimalEncoder, CpuEncoder}
    /\ \A k \in 2 .. Len(h) : h[k].cmd = MinimalEncoder => k = 2
    /\ \A k \in 2 .. Len(h) : h[k].cmd = CpuEncoder => k = Len(h)

\* Task i of stream s is the same future before and after the step.
SameTask(s, i) ==
    /\ i \in DOMAIN tasks[s]
    /\ i \in DOMAIN tasks'[s]
    /\ ~ (tasks'[s] # tasks[s]
            /\ \A j \in DOMAIN tasks'[s] : tasks'[s][j].st = "queued")

\* C28: a task runs at most three encodes (the first, at most one retry
\* with minimal parameters, at most one CPU fallback); once it has begun it
\* ends as succeeded or as failed, and a task that has ended changes no more
\* and runs no further encode.
C28_TaskLifecycle ==
    [][\A s \in Streams : \A i \in 1 .. MaxClips :
          SameTask(s, i) =>
              /\ Lifecycle(srch'.log[s][i])
              /\ tasks[s][i].st \in RunningStates
                    => tasks'[s][i].st \in RunningStates \cup {"ok", "failed"}
              /\ tasks[s][i].st \in {"ok", "failed"}
                    => /\ tasks'[s][i] = tasks[s][i]
                       /\ srch'.log[s][i] = srch.log[s][i]]_vars

\* C28 witness: a task has succeeded with its third encode, the CPU
\* fallback after the retry with minimal parameters.
C28_WitnessThreeEncodes ==
    \E i \in DOMAIN tasks[1] :
        /\ i \in DOMAIN srch.log[1]
        /\ Len(Encodes(1, i)) = 3
        /\ Encodes(1, i)[2].cmd = MinimalEncoder
        /\ Encodes(1, i)[3] = [cmd |-> CpuEncoder, o |-> "ok"]
        /\ tasks[1][i].st = "ok"

(* ------------------------ claims on the batches ------------------------ *)
\* The segment events of the search that stream s is in.
GroupEvents(s) ==
    SelectSeq(out[s], LAMBDA e : e.type = "segment" /\ e.grp = sess[s].grp)

\* The states of a future that is resolved.
Resolved == {"ok", "failed", "cancelled"}

\* C29: the event of a segment, result or skipped, is sent only when every
\* task of the segment's batch is resolved (succeeded, failed or cancelled
\* before its start); while the tasks of a batch exist the events of all
\* segments before theirs, and no other, are sent; and at most max_workers
\* tasks of a session render at once.
C29_BatchResolution ==
    [][\A s \in Streams :
          /\ SegmentEvents(out'[s]) # SegmentEvents(out[s])
                => \A i \in DOMAIN tasks[s] : tasks[s][i].st \in Resolved
          /\ (tasks'[s] # <<>> /\ sess'[s].pc \in {"harvest", "cancelling"})
                => Len(SelectSeq(out'[s], LAMBDA e :
                           e.type = "segment" /\ e.grp = sess'[s].grp))
                       = sess'[s].seg - 1
          /\ Cardinality({i \in DOMAIN tasks'[s] :
                             tasks'[s][i].st \in RunningStates}) <= max_workers']_vars

\* C29 witness: the first segment of a search is reported with a clip, and
\* the tasks of the second segment fill the pool of two or more threads.
C29_WitnessSecondBatch ==
    /\ sess[1].pc = "harvest"
    /\ sess[1].seg = 2
    /\ Len(GroupEvents(1)) = 1
    /\ GroupEvents(1)[1].files # <<>>
    /\ max_workers >= 2
    /\ Cardinality(Running(1)) = max_workers

(* --------------------------- termination ------------------------------- *)
\* The steps of the program itself: the generator and generate() run on when
\* they can, an idle thread of the pool takes the next work item, and every
\* encode that was started comes back, with an exit code or by its timeout.
\* The signals and the disconnect of the client are not among them.
ProgramStep(s) ==
    \/ SeqPoll(s)
    \/ SearchStart(s)
    \/ SegmentBegin(s)
    \/ Harvest(s)
    \/ CancelFuture(s)
    \/ AfterCancel(s)
    \/ BatchExit(s)
    \/ LegacyLoop(s)
    \/ SearchEnd(s)
    \/ StreamDone(s)

TaskStep(s, i) ==
    /\ i \in DOMAIN tasks[s]
    /\ \/ TaskStart(s, i)
       \/ TaskPrepare(s, i)
       \/ TaskRelease(s, i)
       \/ \E o \in Outcomes : EncodeExit(s, i, o)
       \/ \E o \in Outcomes : MinimalExit(s, i, o)
       \/ \E o \in Outcomes : CpuExit(s, i, o)

Fairness ==
    /\ \A s \in {1} : WF_vars(ProgramStep(s) /\ UNCHANGED srch)
    /\ \A s \in {1} : WF_vars((\E o \in SeqOutcomes : SeqExit(s, o)) /\ UNCHANGED srch)
    /\ \A s \in {1} : \A i \in 1 .. MaxClips :
           WF_vars(TaskStep(s, i) /\ UNCHANGED srch)

\* One stream whose sentences have at most MaxLogged clips together.
InitLive ==
    /\ InitProcess
    /\ InitStreams({1})
    /\ TotalClips(found, req[1].groups) <= MaxLogged
    /\ srch = NoSearch

\* A second request that names its search as a running one does: lines
\* 1102-1104 when it starts, lines 1173-1178 when it ends.
TwinStart(id) ==
    /\ SKIP_SEGMENTS' = SkipReset(SKIP_SEGMENTS, id)
    /\ UNCHANGED <<gpuVars, CANCELLED_SEARCHES, clipDirs, found, req, sess,
                   tasks, doneQ, out>>

TwinEnd(id) ==
    /\ Teardown(id)
    /\ UNCHANGED <<gpuVars, clipDirs, found, req, sess, tasks, doneQ, out>>

LiveNext ==
    \/ \E id \in RunningIds : \E ph \in PendingPhrases(id) : SkipSegment(id, ph) /\ UNCHANGED srch
    \/ \E id \in RunningIds : CancelSearch(id) /\ UNCHANGED srch
    \/ \E id \in RunningIds : TwinStart(id) /\ UNCHANGED srch
    \/ \E id \in RunningIds : TwinEnd(id) /\ UNCHANGED srch
    \/ \E s \in Streams : SearchStart(s) /\ UNCHANGED srch
    \/ \E s \in Streams : SegmentBegin(s) /\ UNCHANGED srch
    \/ \E s \in Streams : Harvest(s) /\ UNCHANGED srch
    \/ \E s \in Streams : CancelFuture(s) /\ UNCHANGED srch
    \/ \E s \in Streams : AfterCancel(s) /\ UNCHANGED srch
    \/ \E s \in Streams : BatchExit(s) /\ UNCHANGED srch
    \/ \E s \in Streams : LegacyLoop(s) /\ UNCHANGED srch
    \/ \E s \in Streams : SeqPoll(s) /\ UNCHANGED srch
    \/ \E s \in Streams : \E o \in SeqOutcomes : SeqExit(s, o) /\ UNCHANGED srch
    \/ \E s \in Streams : SearchEnd(s) /\ UNCHANGED srch
    \/ \E s \in Streams : StreamDone(s) /\ UNCHANGED srch
    \/ \E s \in Streams : Disconnect(s) /\ UNCHANGED srch
    \/ \E s \in Streams : \E i \in 1 .. Len(tasks[s]) : TaskStart(s, i) /\ UNCHANGED srch
    \/ \E s \in Streams : \E i \in 1 .. Len(tasks[s]) : TaskPrepare(s, i) /\ UNCHANGED srch
    \/ \E s \in Streams : \E i \in 1 .. Len(tasks[s]) : TaskRelease(s, i) /\ UNCHANGED srch
    \/ \E s \in Streams : \E i \in 1 .. Len(tasks[s]) :
           \E o \in Outcomes : EncodeExit(s, i, o) /\ UNCHANGED srch
    \/ \E s \in Streams : \E i \in 1 .. Len(tasks[s]) :
           \E o \in Outcomes : MinimalExit(s, i, o) /\ UNCHANGED srch
    \/ \E s \in Streams : \E i \in 1 .. Len(tasks[s]) :
           \E o \in Outcomes : CpuExit(s, i, o) /\ UNCHANGED srch

SpecLive == InitLive /\ [][LiveNext]_vars /\ Fairness

\* The stream has ended and nothing of it is left in the two registries.
Ended(s) ==
    /\ sess[s].pc \in {"finished", "aborted", "disconnected"}
    /\ CANCELLED_SEARCHES = {}
    /\ SKIP_SEGMENTS = <<>>

\* C30: provided every started encode comes back, every session ends at
\* last, by completion, error, abort or disconnect, with its entries removed
\* from the registries: no checkpoint and no encode is waited for forever.
C30_EverySessionEnds == <>Ended(1)

\* C30 witness: a session has ended after the sequential loop encoded a
\* clip: the only segment of its sentence has n clips, which the batch names
\* 0 .. n - 1, and the file named n is there.
C30_WitnessEndedAfterSequentialEncode ==
    /\ Ended(1)
    /\ sess[1].pc = "finished"
    /\ \E g \in Sentences :
           /\ Len(found[g]) = 1
           /\ found[g][1] \in clipDirs[g].files

(* --------------------------- two requests ------------------------------ *)
\* Two requests for one sentence with one segment, over the same files; the
\* second names its search as the first does (the same counter) or not.
\* The segment has one clip, or several on a machine without a GPU encoder.
MaxTwinClips == 2

InitTwo ==
    /\ InitProcess
    /\ max_workers = 1
    /\ found \in {f \in [Sentences -> SegLists] :
                     /\ Len(f[1]) = 1
                     /\ f[1][1] <= MaxTwinClips
                     /\ \A x \in Sentences \ {1} : f[x] = <<>>}
    /\ found[1][1] > 1 => GPU_ENCODER_CACHE = NoEncoder
    /\ req \in {r \in [{1, 2} -> [counter : {0, 1}, groups : {<<1>>}]] :
                   r[1].counter = 0}
    /\ sess = [s \in {1, 2} |-> NewSess]
    /\ tasks = [s \in {1, 2} |-> <<>>]
    /\ doneQ = [s \in {1, 2} |-> <<>>]
    /\ out = [s \in {1, 2} |-> <<>>]
    /\ srch = NoSearch

\* The search ids the requests will use: a client knows them from the
\* events of an earlier search, and cancel_search() takes any id.
AllIds == {SearchId(s, g) : s \in Streams, g \in {1}}

TwoNext ==
    \/ \E id \in RunningIds : \E ph \in PendingPhrases(id) : SkipSegment(id, ph) /\ UNCHANGED srch
    \/ \E id \in AllIds : CancelSearch(id) /\ UNCHANGED srch
    \/ \E s \in Streams : SearchStart(s) /\ UNCHANGED srch
    \/ \E s \in Streams : SegmentBegin(s) /\ UNCHANGED srch
    \/ \E s \in Streams : Harvest(s) /\ UNCHANGED srch
    \/ \E s \in Streams : CancelFuture(s) /\ UNCHANGED srch
    \/ \E s \in Streams : AfterCancel(s) /\ UNCHANGED srch
    \/ \E s \in Streams : BatchExit(s) /\ UNCHANGED srch
    \/ \E s \in Streams : LegacyLoop(s) /\ UNCHANGED srch
    \/ \E s \in Streams : SeqPoll(s) /\ UNCHANGED srch
    \/ \E s \in Streams : \E o \in SeqOutcomes : SeqExit(s, o) /\ UNCHANGED srch
    \/ \E s \in Streams : SearchEnd(s) /\ UNCHANGED srch
    \/ \E s \in Streams : StreamDone(s) /\ UNCHANGED srch
    \/ \E s \in Streams : Disconnect(s) /\ UNCHANGED srch
    \/ \E s \in Streams : \E i \in 1 .. Len(tasks[s]) : TaskStart(s, i) /\ UNCHANGED srch
    \/ \E s \in Streams : \E i \in 1 .. Len(tasks[s]) : TaskPrepare(s, i) /\ UNCHANGED srch
    \/ \E s \in Streams : \E i \in 1 .. Len(tasks[s]) : TaskRelease(s, i) /\ UNCHANGED srch
    \/ \E s \in Streams : \E i \in 1 .. Len(tasks[s]) :
           \E o \in Outcomes : EncodeExit(s, i, o) /\ UNCHANGED srch
    \/ \E s \in Streams : \E i \in 1 .. Len(tasks[s]) :
           \E o \in Outcomes : MinimalExit(s, i, o) /\ UNCHANGED srch
    \/ \E s \in Streams : \E i \in 1 .. Len(tasks[s]) :
           \E o \in Outcomes : CpuExit(s, i, o) /\ UNCHANGED srch

SpecTwo == InitTwo /\ [][TwoNext]_vars

\* C31: a search that starts while no search with its id is running starts
\* not cancelled, whatever cancel_search() was told before.
C31_NewSessionNotCancelled ==
    [][\A s \in Streams :
          (/\ SearchStart(s)
           /\ CurId(s) \notin RunningIds
           /\ sess'[s].pc = "segment")
          => CurId(s) \notin CANCELLED_SEARCHES']_vars

\* The signals for the search of stream t that it has not acted on: the
\* cancellation of a search that still runs, and the skip of its segment
\* while the segment does not count as skipped.
CancelPending(t) ==
    /\ sess[t].pc \in ActivePcs
    /\ CurId(t) \in CANCELLED_SEARCHES

SkipPending(t) ==
    /\ sess[t].pc \in ActivePcs
    /\ ~sess[t].segment_skipped
    /\ CurPhrase(t) \in SkipSet(CurId(t))

\* Stream s takes a step, stream t does not, and both use one search id.
TwinMoves(s, t) ==
    /\ s # t
    /\ SearchId(s, 1) = SearchId(t, 1)
    /\ sess'[s] # sess[s]
    /\ sess'[t] = sess[t]

\* C32: of two sessions with one search id, a step of one (its start, its
\* end) never removes a cancel or skip signal the other has not acted on.
C32_TwinKeepsSignals ==
    [][\A s, t \in Streams :
          TwinMoves(s, t) =>
              /\ CancelPending(t) => CurId(t) \in CANCELLED_SEARCHES'
              /\ SkipPending(t) =>
                     /\ CurId(t) \in DOMAIN SKIP_SEGMENTS'
                     /\ CurPhrase(t) \in SKIP_SEGMENTS'[CurId(t)]]_vars

(* ------------------------- two search ids ------------------------------ *)
\* The two requests differ in their counter, and with it in their search
\* id; the client signals the search of the first only.
InitIso == InitTwo /\ req[2].counter = 1

SignalledIds == RunningIds \cap {SearchId(1, 1)}

IsoNext ==
    \/ \E id \in SignalledIds : \E ph \in PendingPhrases(id) : SkipSegment(id, ph) /\ UNCHANGED srch
    \/ \E id \in SignalledIds : CancelSearch(id) /\ UNCHANGED srch
    \/ \E s \in Streams : SearchStart(s) /\ UNCHANGED srch
    \/ \E s \in Streams : SegmentBegin(s) /\ UNCHANGED srch
    \/ \E s \in Streams : Harvest(s) /\ UNCHANGED srch
    \/ \E s \in Streams : CancelFuture(s) /\ UNCHANGED srch
    \/ \E s \in Streams : AfterCancel(s) /\ UNCHANGED srch
    \/ \E s \in Streams : BatchExit(s) /\ UNCHANGED srch
    \/ \E s \in Streams : LegacyLoop(s) /\ UNCHANGED srch
    \/ \E s \in Streams : SearchEnd(s) /\ UNCHANGED srch
    \/ \E s \in Streams : StreamDone(s) /\ UNCHANGED srch
    \/ \E s \in Streams : Disconnect(s) /\ UNCHANGED srch
    \/ \E s \in Streams : \E i \in 1 .. Len(tasks[s]) : TaskStart(s, i) /\ UNCHANGED srch
    \/ \E s \in Streams : \E i \in 1 .. Len(tasks[s]) : TaskPrepare(s, i) /\ UNCHANGED srch
    \/ \E s \in Streams : \E i \in 1 .. Len(tasks[s]) : TaskRelease(s, i) /\ UNCHANGED srch
    \/ \E s \in Streams : \E i \in 1 .. Len(tasks[s]) :
           \E o \in Outcomes : EncodeExit(s, i, o) /\ UNCHANGED srch
    \/ \E s \in Streams : \E i \in 1 .. Len(tasks[s]) :
           \E o \in Outcomes : MinimalExit(s, i, o) /\ UNCHANGED srch
    \/ \E s \in Streams : \E i \in 1 .. Len(tasks[s]) :
           \E o \in Outcomes : CpuExit(s, i, o) /\ UNCHANGED srch

SpecIso == InitIso /\ [][IsoNext]_vars

\* The session of stream t runs as one that was never signalled: it is at
\* no place a signal leads to, none of its futures was cancelled, and it
\* has sent neither a skipped segment nor an error.
Undisturbed(t) ==
    /\ sess[t].pc \notin {"aborted", "cancelling", "legacy", "sequential"}
    /\ ~sess[t].segment_skipped
    /\ ~sess[t].should_cancel
    /\ \A i \in 1 .. Len(tasks[t]) : tasks[t][i].st \notin {"revoked", "cancelled"}
    /\ \A k \in 1 .. Len(out[t]) :
           /\ out[t][k].type # "error"
           /\ out[t][k].type = "segment" => ~out[t][k].skipped

\* C33: the skip and cancel signals for the search id of one session change
\* nothing in a session with another search id that runs at the same time:
\* it renders every clip and reports every segment as if no signal was sent.
C33_OtherIdUndisturbed == Undisturbed(2)

\* C33 witness: the first search is cancelled and still running while the
\* second, with the other id, is encoding a clip.
C33_WitnessSignalWhileOtherEncodes ==
    /\ sess[1].pc \in ActivePcs
    /\ SearchId(1, 1) \in CANCELLED_SEARCHES
    /\ SearchId(1, 1) \in DOMAIN SKIP_SEGMENTS
    /\ SKIP_SEGMENTS[SearchId(1, 1)] # {}
    /\ sess[2].pc = "harvest"
    /\ \E i \in 1 .. Len(tasks[2]) : tasks[2][i].st \in EncodingStates

(* ----------------------------- permits --------------------------------- *)
\* The tasks between acquire (2459) and the finally clause (2488-2490).
Holders == {p \in Streams \X (1 .. MaxClips) :
               /\ p[2] <= Len(tasks[p[1]])
               /\ tasks[p[1]][p[2]].st = "holding"}

\* C34: the free permits are between 0 and MAX_GPU_STREAMS, and every permit
\* that is not free is held by exactly one task that acquired it and has not
\* released it yet; so all permits are free whenever no task is running.
C34_PermitBalance ==
    /\ GPU_ENCODING_SEMAPHORE \in 0 .. MAX_GPU_STREAMS
    /\ GPU_ENCODING_SEMAPHORE + Cardinality(Holders) = MAX_GPU_STREAMS
    /\ (\A s \in Streams : Running(s) = {}) =>
           GPU_ENCODING_SEMAPHORE = MAX_GPU_STREAMS

\* C34 witness: every permit is free again after a batch in which a task
\* that had a permit failed: GPU support was disabled by its failure.
C34_WitnessFreeAfterFailure ==
    /\ GPU_ENCODING_SEMAPHORE = MAX_GPU_STREAMS
    /\ GPU_DISABLED
    /\ \A s \in Streams : Running(s) = {}
    /\ \E s \in Streams : \E i \in 1 .. Len(tasks[s]) : tasks[s][i].st = "failed"

(* ------------------------ files of an event ---------------------------- *)
\* The step adds a segment event that is not marked skipped to the stream.
ReportsSegment(s) ==
    /\ Len(out'[s]) = Len(out[s]) + 1
    /\ out'[s][Len(out'[s])].type = "segment"
    /\ ~out'[s][Len(out'[s])].skipped

\* C35: every file of a segment event that is not marked skipped is the
\* clip of a task of the batch of that segment whose render succeeded, and
\* no clip is listed twice; a failed or cancelled task has no entry.
C35_FilesAreSucceededTasks ==
    [][\A s \in Streams :
          ReportsSegment(s) =>
              LET files == out'[s][Len(out'[s])].files
              IN  /\ \A k \in 1 .. Len(files) :
                         \E i \in 1 .. Len(tasks[s]) :
                             /\ tasks[s][i].name = files[k]
                             /\ tasks[s][i].st = "ok"
                  /\ \A k, m \in 1 .. Len(files) :
                         files[k] = files[m] => k = m]_vars

\* C35 witness: a segment was reported with some of its clips but not all
\* of them: a task of its batch failed or was cancelled.
C35_WitnessPartialSegment ==
    \E s \in Streams : \E k \in 1 .. Len(out[s]) :
        /\ out[s][k].type = "segment"
        /\ ~out[s][k].skipped
        /\ Len(out[s][k].files) >= 1
        /\ Len(out[s][k].files) < found[out[s][k].phrase[1]][out[s][k].phrase[2]]

(* --------------------------- file names -------------------------------- *)
\* The output file names a search has given to its renders, in the order
\* it gave them: to the tasks of a batch when the batch is built (2633-2638)
\* and to a clip of the sequential loop when its encode is started (2795).
NoNames == [names |-> [s \in {1} |-> <<>>]]

NamesGiven(s) ==
    IF sess[s].pc = "group" /\ sess'[s].pc = "segment" THEN <<>>
    ELSE IF sess[s].pc = "segment" /\ sess'[s].pc = "harvest"
    THEN srch.names[s] \o [i \in 1 .. Len(tasks'[s]) |-> tasks'[s][i].name]
    ELSE IF sess[s].pc = "legacy" /\ sess'[s].pc = "sequential"
    THEN Append(srch.names[s], sess[s].global_clip_counter)
    ELSE srch.names[s]

LogNames == srch' = [names |-> [s \in DOMAIN srch.names |-> NamesGiven(s)]]

InitNames ==
    /\ InitProcess
    /\ InitStreams({1})
    /\ TotalClips(found, req[1].groups) <= MaxLogged
    /\ srch = NoNames

NamesNext ==
    \/ \E id \in RunningIds : \E ph \in PendingPhrases(id) : SkipSegment(id, ph) /\ LogNames
    \/ \E id \in RunningIds : CancelSearch(id) /\ LogNames
    \/ \E id \in RunningIds : TwinStart(id) /\ LogNames
    \/ \E id \in RunningIds : TwinEnd(id) /\ LogNames
    \/ \E s \in Streams : SearchStart(s) /\ LogNames
    \/ \E s \in Streams : SegmentBegin(s) /\ LogNames
    \/ \E s \in Streams : Harvest(s) /\ LogNames
    \/ \E s \in Streams : CancelFuture(s) /\ LogNames
    \/ \E s \in Streams : AfterCancel(s) /\ LogNames
    \/ \E s \in Streams : BatchExit(s) /\ LogNames
    \/ \E s \in Streams : LegacyLoop(s) /\ LogNames
    \/ \E s \in Streams : SeqPoll(s) /\ LogNames
    \/ \E s \in Streams : \E o \in SeqOutcomes : SeqExit(s, o) /\ LogNames
    \/ \E s \in Streams : SearchEnd(s) /\ LogNames
    \/ \E s \in Streams : StreamDone(s) /\ LogNames
    \/ \E s \in Streams : Disconnect(s) /\ LogNames
    \/ \E s \in Streams : \E i \in 1 .. Len(tasks[s]) : TaskStart(s, i) /\ LogNames
    \/ \E s \in Streams : \E i \in 1 .. Len(tasks[s]) : TaskPrepare(s, i) /\ LogNames
    \/ \E s \in Streams : \E i \in 1 .. Len(tasks[s]) : TaskRelease(s, i) /\ LogNames
    \/ \E s \in Streams : \E i \in 1 .. Len(tasks[s]) :
           \E o \in Outcomes : EncodeExit(s, i, o) /\ LogNames
    \/ \E s \in Streams : \E i \in 1 .. Len(tasks[s]) :
           \E o \in Outcomes : MinimalExit(s, i, o) /\ LogNames
    \/ \E s \in Streams : \E i \in 1 .. Len(tasks[s]) :
           \E o \in Outcomes : CpuExit(s, i, o) /\ LogNames

SpecNames == InitNames /\ [][NamesNext]_vars

\* C36: within one search no two renders are given the same output file
\* name, across all its segments and also after segments that were skipped.
C36_NamesAreDistinct ==
    \A s \in DOMAIN srch.names :
        \A k, m \in 1 .. Len(srch.names[s]) :
            srch.names[s][k] = srch.names[s][m] => k = m

(* ---------------- the clip cache of the batch function ----------------- *)
\* find_and_export_longest_matches (lines 3018-3462) behind
\* /search_longest_segments, and rerender_clip (lines 3696-3800), which
\* writes into the same clip directory.  A match is its place in the list the
\* search finds with the widest silence settings; a clip file is its name and
\* the match it shows.
MaxMatches == 3

MAX_CLIPS_PER_SEGMENT == 25

\* f"{clip_group_name}_{global_clip_counter:05d}.mp4" (line 3193) and
\* f"{name_without_ext}_trimmed_{start}_{end}.mp4" (line 3759) of one group.
ClipName(n) == [n |-> n, trimmed |-> FALSE]

TrimmedName(name) == [n |-> name.n, trimmed |-> TRUE]

\* The order of sorted() over the names (line 3060): the five digits decide,
\* and behind equal digits '.' of ".mp4" is smaller than '_' of "_trimmed_".
NameBefore(a, b) ==
    \/ a.n < b.n
    \/ a.n = b.n /\ ~a.trimmed /\ b.trimmed

RECURSIVE SortedNames(_)
SortedNames(S) ==
    IF S = {} THEN <<>>
    ELSE LET first == CHOOSE a \in S : \A b \in S \ {a} : NameBefore(a, b)
         IN  <<first>> \o SortedNames(S \ {first})

NoClipDir == [exists |-> FALSE, meta |-> FALSE, files |-> {}]

\* The matches a run collects: all of them with the wide silence settings,
\* those whose gaps pass with the narrow ones, in the order of discovery.
Collected(settings) ==
    LET keep == IF settings = "wide" THEN 1 .. srch.found ELSE srch.narrow
    IN  SelectSeq([k \in 1 .. srch.found |-> k], LAMBDA m : m \in keep)

\* One call with export_clips.  The stored metadata is compared by its source
\* files, which are part of the directory's name (lines 3057, 1476-1482), so a
\* directory with metadata is taken for a cache; its .mp4 names are listed in
\* sorted order (3059-3079) and cut to the matches collected (3178-3187);
\* match number k is reported with the k-th name (3199-3233).  Without a
\* cache the directory is made anew, clip k-1 is rendered for match k and the
\* metadata is written when there was a match (3449-3458).
find_and_export_longest_matches(dir, collected, oks) ==
    LET stored == dir.exists /\ dir.meta
        listed == IF stored
                  THEN SortedNames({[n |-> f.n, trimmed |-> f.trimmed] :
                                       f \in dir.files})
                  ELSE <<>>
        cached_clip_files == Take(listed, MAX_CLIPS_PER_SEGMENT)
        collected_total == Len(collected)
        skip_export == /\ stored
                       /\ Len(cached_clip_files) > 0
                       /\ Len(cached_clip_files) >= collected_total
        rendered == {[n |-> k - 1, trimmed |-> FALSE, of |-> collected[k]] :
                        k \in oks \cap (1 .. collected_total)}
    IN  IF skip_export
        THEN [dir |-> dir,
              all_matches |->
                  [k \in 1 .. collected_total |->
                      [match |-> collected[k],
                       file |-> cached_clip_files[k],
                       cached |-> TRUE]]]
        ELSE [dir |-> IF collected_total = 0
                      THEN NoClipDir
                      ELSE [exists |-> TRUE, meta |-> TRUE, files |-> rendered],
              all_matches |->
                  [k \in 1 .. collected_total |->
                      [match |-> collected[k],
                       file |-> ClipName(k - 1),
                       cached |-> FALSE]]]

\* POST /search_longest_segments with one of the two silence settings; oks are
\* the renders that succeed.
BatchSearch(settings, oks) ==
    /\ srch.pc = "batch"
    /\ LET r == find_and_export_longest_matches(srch.dir, Collected(settings), oks)
       IN  srch' = [srch EXCEPT !.dir = r.dir,
                                !.all_matches = r.all_matches,
                                !.settings = settings]
    /\ UNCHANGED <<sessionVars, out>>

\* POST /rerender_clip for a clip the last search reported: the trimmed clip
\* of the match the client was shown is written beside the clip, under the
\* clip's name with the trim suffix (lines 3748-3761).
Rerender(k) ==
    /\ srch.pc = "batch"
    /\ k \in 1 .. Len(srch.all_matches)
    /\ srch.dir.exists
    /\ LET shown == srch.all_matches[k]
           name == TrimmedName(shown.file)
           others == {f \in srch.dir.files :
                         [n |-> f.n, trimmed |-> f.trimmed] # name}
       IN  srch' = [srch EXCEPT
               !.dir.files = others \cup
                   {[n |-> name.n, trimmed |-> TRUE, of |-> shown.match]}]
    /\ UNCHANGED <<sessionVars, out>>

InitBatch ==
    /\ InitIdle
    /\ \E n \in 1 .. MaxMatches : \E narrow \in SUBSET (1 .. n) :
           srch = [pc |-> "batch", found |-> n, narrow |-> narrow,
                   settings |-> None, dir |-> NoClipDir, all_matches |-> <<>>]

BatchNext ==
    \/ \E settings \in {"wide", "narrow"} : \E oks \in SUBSET (1 .. MaxMatches) :
           BatchSearch(settings, oks)
    \/ \E k \in 1 .. MaxMatches : Rerender(k)

SpecBatch == InitBatch /\ [][BatchNext]_vars

\* C37: a match reported from the cache is reported with the clip that was
\* rendered for that match: the file of that name in the clip directory is a
\* numbered clip and shows the match.
C37_CachedClipIsOwnClip ==
    srch.pc = "batch" =>
        \A k \in 1 .. Len(srch.all_matches) :
            srch.all_matches[k].cached =>
                \E f \in srch.dir.files :
                    /\ [n |-> f.n, trimmed |-> f.trimmed] = srch.all_matches[k].file
                    /\ ~f.trimmed
                    /\ f.of = srch.all_matches[k].match

(* ------------------------ cancelled searches --------------------------- *)
\* The last checkpoint the session took (lines 2666-2677) found its id in
\* CANCELLED_SEARCHES: a skip found there sets segment_skipped as well.
ObservedCancel(s) ==
    /\ sess[s].should_cancel
    /\ ~sess[s].segment_skipped

\* The step writes the metadata file of the session's clip directory.
WritesMetadata(s) ==
    /\ ~sess[s].skip_export
    /\ clipDirs'[CurGroup(s)].meta # NoMeta

\* C38: a session that saw its cancellation at a checkpoint does not write
\* the metadata of its clip directory when its search ends.
C38_CancelledWritesNoMetadata ==
    [][\A s \in Streams :
          (SearchEnd(s) /\ ObservedCancel(s)) => ~WritesMetadata(s)]_vars

====
